---- MODULE Spec2Model ----
(***************************************************************************)
(* A model of sccache's GCC argument classifier (src/compiler/gcc.rs):     *)
(* the response-file iterator ExpandIncludeFile and _parse_arguments.      *)
(*                                                                         *)
(* Strings (OsString, String, Path) are sequences of one-character         *)
(* strings, so that prefix tests, extension extraction and whitespace      *)
(* splitting are computed, not assumed.  An Option is a sequence of        *)
(* length 0 (None) or 1 (Some(v)).  A Vec used as a stack has its top at   *)
(* the end.                                                                *)
(***************************************************************************)
EXTENDS Integers, Sequences, FiniteSets, TLC

\* Longest command line (number of raw arguments) Init draws.
MaxArgs == 3

\* Steps after which the reference run Run gives up (never reached by the
\* acyclic response files of Files).
MaxSteps == 40

None == <<>>
Some(v) == <<v>>

\* Stands for a byte that is not valid UTF-8: OsStr::to_str fails on a
\* string that holds it.
BadByte == "<FF>"

-----------------------------------------------------------------------------
(* String and path helpers.                                                *)

Reverse(s) == [i \in 1..Len(s) |-> s[Len(s) + 1 - i]]

\* OsStr::to_str
ToStr(s) == IF \E i \in 1..Len(s) : s[i] = BadByte THEN None ELSE Some(s)

\* OsStrExt::starts_with
StartsWith(s, p) == Len(s) >= Len(p) /\ SubSeq(s, 1, Len(p)) = p

\* OsStrExt::split_prefix
SplitPrefix(s, p) ==
    IF StartsWith(s, p) THEN Some(SubSeq(s, Len(p) + 1, Len(s))) ELSE None

\* Index of the last occurrence of the character c in s, 0 when there is none.
LastIndexOf(s, c) ==
    LET hits == {i \in 1..Len(s) : s[i] = c}
    IN  IF hits = {} THEN 0 ELSE CHOOSE i \in hits : \A j \in hits : j <= i

\* Path::join: an absolute path replaces the base
Join(base, p) ==
    IF StartsWith(p, <<"/">>) THEN p
    ELSE IF base # <<>> /\ base[Len(base)] = "/" THEN base \o p
    ELSE base \o <<"/">> \o p

\* Path::file_name, for paths that do not end in a separator
FileName(p) ==
    LET name == SubSeq(p, LastIndexOf(p, "/") + 1, Len(p))
    IN  IF name = <<>> \/ name = <<".">> \/ name = <<".", ".">>
        THEN None ELSE Some(name)

\* std::path split_file_at_dot: <<stem, extension>> of a file name, as Options
SplitFileAtDot(name) ==
    LET k == LastIndexOf(name, ".")
    IN  IF k = 0 THEN <<None, Some(name)>>
        ELSE IF k = 1 THEN <<Some(name), None>>
        ELSE <<Some(SubSeq(name, 1, k - 1)), Some(SubSeq(name, k + 1, Len(name)))>>

\* Path::extension().and_then(|e| e.to_str())
Extension(p) ==
    LET f == FileName(p)
    IN  IF f = None THEN None
        ELSE LET ba == SplitFileAtDot(f[1])
             IN  IF ba[1] = None \/ ba[2] = None THEN None ELSE ToStr(ba[2][1])

\* Path::file_stem
FileStem(p) ==
    LET f == FileName(p)
    IN  IF f = None THEN None
        ELSE LET ba == SplitFileAtDot(f[1])
             IN  IF ba[1] # None THEN ba[1] ELSE ba[2]

\* Path::with_extension
WithExtension(p, ext) ==
    IF FileName(p) = None THEN p
    ELSE SubSeq(p, 1, LastIndexOf(p, "/") + Len(FileStem(p)[1]))
         \o (IF ext = <<>> THEN <<>> ELSE <<".">> \o ext)

\* char::is_whitespace, on the characters the model uses
IsWhitespace(c) == c \in {" ", "\t", "\n", "\r"}

\* str::split_whitespace: the maximal runs of non-whitespace, in order
RECURSIVE SplitFrom(_, _, _)
SplitFrom(s, i, cur) ==
    IF i > Len(s) THEN (IF cur = <<>> THEN <<>> ELSE <<cur>>)
    ELSE IF IsWhitespace(s[i])
         THEN (IF cur = <<>> THEN <<>> ELSE <<cur>>) \o SplitFrom(s, i + 1, <<>>)
         ELSE SplitFrom(s, i + 1, Append(cur, s[i]))

SplitWhitespace(s) == SplitFrom(s, 1, <<>>)

\* contents.contains('"') || contents.contains('\'')
HasQuote(s) == \E i \in 1..Len(s) : s[i] = "\"" \/ s[i] = "'"

-----------------------------------------------------------------------------
(* The literals of the classifier.                                         *)

\* The string patterns of the match in _parse_arguments.
Lit == [
    c            |-> <<"-", "c">>,
    o            |-> <<"-", "o">>,
    gsplit_dwarf |-> <<"-", "g", "s", "p", "l", "i", "t", "-", "d", "w", "a", "r", "f">>,
    x            |-> <<"-", "x">>,
    MF           |-> <<"-", "M", "F">>,
    MQ           |-> <<"-", "M", "Q">>,
    MT           |-> <<"-", "M", "T">>,
    fcxx_modules |-> <<"-", "f", "c", "x", "x", "-", "m", "o", "d", "u", "l", "e", "s">>,
    fmodules     |-> <<"-", "f", "m", "o", "d", "u", "l", "e", "s">>,
    fsyntax_only |-> <<"-", "f", "s", "y", "n", "t", "a", "x", "-", "o", "n", "l", "y">>,
    fprofile_use |-> <<"-", "f", "p", "r", "o", "f", "i", "l", "e", "-", "u", "s", "e">>,
    M            |-> <<"-", "M">>,
    MM           |-> <<"-", "M", "M">>,
    MD           |-> <<"-", "M", "D">>,
    MMD          |-> <<"-", "M", "M", "D">>,
    at           |-> <<"@">>,
    dash         |-> <<"-">>,
    dwo          |-> <<"d", "w", "o">> ]

ARGS_WITH_VALUE == {
    <<"-", "-", "p", "a", "r", "a", "m">>,
    <<"-", "A">>,
    <<"-", "D">>,
    <<"-", "F">>,
    <<"-", "G">>,
    <<"-", "I">>,
    <<"-", "L">>,
    <<"-", "U">>,
    <<"-", "V">>,
    <<"-", "X", "a", "s", "s", "e", "m", "b", "l", "e", "r">>,
    <<"-", "X", "l", "i", "n", "k", "e", "r">>,
    <<"-", "X", "p", "r", "e", "p", "r", "o", "c", "e", "s", "s", "o", "r">>,
    <<"-", "a", "u", "x", "-", "i", "n", "f", "o">>,
    <<"-", "b">>,
    <<"-", "i", "d", "i", "r", "a", "f", "t", "e", "r">>,
    <<"-", "i", "f", "r", "a", "m", "e", "w", "o", "r", "k">>,
    <<"-", "i", "m", "a", "c", "r", "o", "s">>,
    <<"-", "i", "m", "u", "l", "t", "i", "l", "i", "b">>,
    <<"-", "i", "n", "c", "l", "u", "d", "e">>,
    <<"-", "i", "n", "s", "t", "a", "l", "l", "_", "n", "a", "m", "e">>,
    <<"-", "i", "p", "r", "e", "f", "i", "x">>,
    <<"-", "i", "q", "u", "o", "t", "e">>,
    <<"-", "i", "s", "y", "s", "r", "o", "o", "t">>,
    <<"-", "i", "s", "y", "s", "t", "e", "m">>,
    <<"-", "i", "w", "i", "t", "h", "p", "r", "e", "f", "i", "x">>,
    <<"-", "i", "w", "i", "t", "h", "p", "r", "e", "f", "i", "x", "b", "e", "f", "o", "r", "e">>,
    <<"-", "u">> }

argument_takes_value(a) == a \in ARGS_WITH_VALUE

\* KnownExtensions without c++.
KnownExtensions_NoCxx ==
    { <<"c">>, <<"c", "c">>, <<"c", "p", "p">>, <<"c", "x", "x">> }

\* The extensions _parse_arguments accepts for an input without -x.
KnownExtensions ==
    { <<"c">>, <<"c", "c">>, <<"c", "p", "p">>, <<"c", "x", "x">>, <<"c", "+", "+">> }

\* The match arms that return CannotCache for a flag, with their reasons.
CannotCacheFlag_PgoAsModules(a) ==
    IF a = Lit.fcxx_modules THEN Some("clang modules")
    ELSE IF a = Lit.fmodules THEN Some("clang modules")
    ELSE IF a = Lit.fsyntax_only THEN Some("-fsyntax-only")
    ELSE IF a = Lit.fprofile_use THEN Some("clang modules")
    ELSE None

\* CannotCacheFlag without -fsyntax-only.
CannotCacheFlag_NoSyntaxOnly(a) ==
    IF a = Lit.fcxx_modules THEN Some("clang modules")
    ELSE IF a = Lit.fmodules THEN Some("clang modules")
    ELSE IF a = Lit.fprofile_use THEN Some("pgo")
    ELSE None

\* Lines 170-176: the flags that make a compilation uncacheable, with the
\* reason each gives.
CannotCacheFlag(a) ==
    IF a = Lit.fcxx_modules THEN Some("clang modules")
    ELSE IF a = Lit.fmodules THEN Some("clang modules")
    ELSE IF a = Lit.fsyntax_only THEN Some("-fsyntax-only")
    ELSE IF a = Lit.fprofile_use THEN Some("pgo")
    ELSE None

\* The variants of CompilerArguments<ParsedArguments>; NoResult while
\* _parse_arguments has not returned.
NoResult == [kind |-> "none"]
NotCompilation == [kind |-> "NotCompilation"]
CannotCache(reason) == [kind |-> "CannotCache", reason |-> reason]
Ok(parsed) == [kind |-> "Ok", parsed |-> parsed]

-----------------------------------------------------------------------------
(* The environment: the working directory, the files under it, the tokens. *)

cwd == <<"/", "w">>

\* The response files that exist: path |-> contents.  /w/rsp is the file of
\* the test at_signs; /w/out holds only the output option; /w/nest refers to
\* /w/rsp; /w/quo holds a quoted option; /w/dep names a dependency target;
\* /w/loop refers to itself, /w/ping and /w/pong to each other.
\* No other path can be opened.
Files ==
    ( <<"/", "w", "/", "o", "u", "t">> :>
         <<" ", "-", "o", "\t", "f", "o", "o", ".", "o", "\n">> )
    @@
    ( <<"/", "w", "/", "r", "s", "p">> :>
         <<"-", "c", " ", "f", "o", "o", ".", "c", " ", "-", "o", " ", "f", "o", "o", ".", "o">> )
    @@ ( <<"/", "w", "/", "n", "e", "s", "t">> :>
         <<"@", "r", "s", "p", "\n", "-", "W", "a", "l", "l", "\n">> )
    @@ ( <<"/", "w", "/", "q", "u", "o">> :>
         <<"-", "c", " ", "'", "f", "o", "o", ".", "c", "'">> )
    @@ ( <<"/", "w", "/", "d", "e", "p">> :>
         <<"-", "M", "T", " ", "d", "e", "p", "f", "i", "l", "e">> )
    @@ ( <<"/", "w", "/", "l", "o", "o", "p">> :>
         <<"-", "c", " ", "@", "l", "o", "o", "p">> )
    @@ ( <<"/", "w", "/", "p", "i", "n", "g">> :> <<"@", "p", "o", "n", "g">> )
    @@ ( <<"/", "w", "/", "p", "o", "n", "g">> :>
         <<"@", "p", "i", "n", "g", "\n">> )

\* The tokens command lines are made of.
Tok == [
    foo_c   |-> <<"f", "o", "o", ".", "c">>,
    foo_o   |-> <<"f", "o", "o", ".", "o">>,
    foo_cc  |-> <<"f", "o", "o", ".", "c", "c">>,
    foo_cpp |-> <<"f", "o", "o", ".", "c", "p", "p">>,
    foo_cxx |-> <<"f", "o", "o", ".", "c", "x", "x">>,
    foo_cxx2 |-> <<"f", "o", "o", ".", "c", "+", "+">>,
    I       |-> <<"-", "I">>,
    Wall    |-> <<"-", "W", "a", "l", "l">>,
    rsp     |-> <<"@", "r", "s", "p">>,
    nest    |-> <<"@", "n", "e", "s", "t">>,
    quo     |-> <<"@", "q", "u", "o">>,
    out     |-> <<"@", "o", "u", "t">>,
    foo     |-> <<"@", "f", "o", "o">>,
    asm     |-> <<"a", "s", "s", "e", "m", "b", "l", "e", "r">>,
    dep     |-> <<"@", "d", "e", "p">>,
    loop    |-> <<"@", "l", "o", "o", "p">>,
    ping    |-> <<"@", "p", "i", "n", "g">>,
    bad     |-> <<"@", BadByte, ".", "c">> ]

\* A command line is drawn from one of these alphabets.
TokenGroups == {
    { Lit.c, Lit.o, Tok.foo_c, Tok.foo_o, Tok.I, Lit.x, Tok.rsp, Tok.out, Tok.bad,
      Tok.asm },
    { Lit.c, Tok.out, Tok.foo_o, Tok.foo_cc, Tok.foo_cpp, Tok.foo_cxx, Tok.foo_cxx2,
      Lit.dash },
    { Lit.fcxx_modules, Lit.fmodules, Lit.fsyntax_only, Lit.fprofile_use,
      Tok.rsp, Tok.I, Lit.o, Tok.foo_c, Tok.Wall },
    { Tok.rsp, Tok.nest, Tok.quo, Tok.foo, Lit.o, Tok.I, Lit.c, Tok.foo_o },
    { Tok.rsp, Tok.dep, Lit.M, Lit.MM, Lit.MD, Lit.MMD, Lit.MT, Lit.MF, Lit.MQ,
      Lit.gsplit_dwarf } }

ArgumentLists ==
    UNION { [1..n -> g] : n \in 0..MaxArgs, g \in TokenGroups }

-----------------------------------------------------------------------------
(* The state of one call of _parse_arguments.                              *)

VARIABLES
    arguments,                 \* the call's argument
    stack,                     \* ExpandIncludeFile.stack
    output_arg, input_arg, dep_target,
    common_args, preprocessor_args,
    compilation, split_dwarf, need_explicit_dep_target,
    force_input_type,
    arg,                       \* Some(flag) while the flag's value is fetched
    pc,                        \* "scan" | "value" | "done" | "panic"
    result                     \* the value returned

\* What compile made of the call's Ok result: None before compile is called.
VARIABLE compiled

\* The disk cache of one daemon.
VARIABLES
    max_size,                  \* the configured maximum, in bytes
    cache,                     \* the entries, least recently used first
    got,                       \* what the last get returned, None after a put
    written,                   \* key |-> the bundle of its last completed put
    evicted                    \* the keys evicted since their last put

\* The daemon: its configuration, its counters and the request it serves.
VARIABLES
    env_recache,               \* SCCACHE_RECACHE in the daemon's environment
    conf_recache,              \* force_recache in the configuration file
    stats,                     \* the server statistics
    req,                       \* the compile request being served
    object,                    \* the object file at the request's obj path
    since                      \* what was requested since the counters were zero

\* A cache entry being written and read back.
VARIABLES
    objects,                   \* the (name, bytes, mode) given to put_object
    writer,                    \* CacheWrite.zip, None once finished
    blob,                      \* the bytes finish returned
    reader,                    \* CacheRead.zip
    read                       \* what the last get_object returned

\* One call of a function of the client or of the configuration.
VARIABLES
    fn_args,                   \* what the call is given
    fn_state,                  \* the function's own state
    fn_ret                     \* what it has returned so far

\* The daemon core and its connections.
VARIABLES
    daemon,                    \* status, idle timer, counters
    conns                      \* per connection: the request and the responses

callVars == << arguments, stack, output_arg, input_arg, dep_target, common_args,
               preprocessor_args, compilation, split_dwarf,
               need_explicit_dep_target, force_input_type, arg, pc, result,
               compiled >>

storageVars == << max_size, cache, got, written, evicted >>

serverVars == << env_recache, conf_recache, stats, req, object, since >>

bundleVars == << objects, writer, blob, reader, read >>

fnVars == << fn_args, fn_state, fn_ret >>

daemonVars == << daemon, conns >>

restVars == << fnVars, daemonVars >>

otherVars == << storageVars, serverVars, bundleVars, restVars >>

vars == << callVars, storageVars, serverVars, bundleVars, restVars >>

\* No disk cache is in use.
NoStorage ==
    /\ max_size = 0
    /\ cache = <<>>
    /\ got = None
    /\ written = <<>>
    /\ evicted = {}

\* No cache entry is being written or read.
NoBundle ==
    /\ objects = <<>>
    /\ writer = None
    /\ blob = None
    /\ reader = None
    /\ read = None

\* No function is being called.
NoFunction ==
    /\ fn_args = None
    /\ fn_state = None
    /\ fn_ret = None

\* No daemon core is running.
NoDaemon ==
    /\ daemon = None
    /\ conns = <<>>

\* No daemon is running.
NoServer ==
    /\ env_recache = [kind |-> "NotPresent"]
    /\ conf_recache = [kind |-> "Absent"]
    /\ stats = <<>>
    /\ req = <<>>
    /\ object = <<>>
    /\ since = <<>>

\* The state as a record, so that a step is a function of the state.
State == [ arguments |-> arguments, stack |-> stack, output_arg |-> output_arg,
           input_arg |-> input_arg, dep_target |-> dep_target,
           common_args |-> common_args, preprocessor_args |-> preprocessor_args,
           compilation |-> compilation, split_dwarf |-> split_dwarf,
           need_explicit_dep_target |-> need_explicit_dep_target,
           force_input_type |-> force_input_type, arg |-> arg, pc |-> pc,
           result |-> result ]

\* The state at line 132, before the first it.next().
Start(args) ==
    [ arguments |-> args, stack |-> Reverse(args), output_arg |-> None,
      input_arg |-> None, dep_target |-> None, common_args |-> <<>>,
      preprocessor_args |-> <<>>, compilation |-> FALSE, split_dwarf |-> FALSE,
      need_explicit_dep_target |-> FALSE, force_input_type |-> None,
      arg |-> None, pc |-> "scan", result |-> NoResult ]

Become(s) ==
    /\ arguments' = s.arguments
    /\ stack' = s.stack
    /\ output_arg' = s.output_arg
    /\ input_arg' = s.input_arg
    /\ dep_target' = s.dep_target
    /\ common_args' = s.common_args
    /\ preprocessor_args' = s.preprocessor_args
    /\ compilation' = s.compilation
    /\ split_dwarf' = s.split_dwarf
    /\ need_explicit_dep_target' = s.need_explicit_dep_target
    /\ force_input_type' = s.force_input_type
    /\ arg' = s.arg
    /\ pc' = s.pc
    /\ result' = s.result
    /\ UNCHANGED compiled
    /\ UNCHANGED otherVars

Return(s, r) == [s EXCEPT !.pc = "done", !.result = r]

Panic(s) == [s EXCEPT !.pc = "panic"]

-----------------------------------------------------------------------------
(* ExpandIncludeFile::next.                                                *)

\* The file an argument names when it begins with @.
IncludeFile(a) ==
    LET p == SplitPrefix(a, Lit.at)
    IN  IF p = None THEN None ELSE Some(Join(cwd, p[1]))

\* File::open(..).and_then(read_to_string): None for an I/O error
ReadToString(path) == IF path \in DOMAIN Files THEN Some(Files[path]) ELSE None

\* The iterator splices the file in: it exists, is readable, has no quote.
Expands(a) ==
    /\ IncludeFile(a) # None
    /\ ReadToString(IncludeFile(a)[1]) # None
    /\ ~HasQuote(ReadToString(IncludeFile(a)[1])[1])

Top(s) == s.stack[Len(s.stack)]

\* The stack after self.stack.pop(); popping an empty stack leaves it empty.
Popped(s) ==
    IF s.stack = <<>> THEN s
    ELSE [s EXCEPT !.stack = SubSeq(s.stack, 1, Len(s.stack) - 1)]

\* One turn of the iterator's loop that ends in self.stack.extend(..).
\* ExpandTop that pushes the tokens of the file without reversing them.
ExpandTop_Unreversed(s) ==
    [s EXCEPT !.stack =
        SubSeq(s.stack, 1, Len(s.stack) - 1)
        \o SplitWhitespace(ReadToString(IncludeFile(Top(s))[1])[1])]

ExpandTop(s) ==
    [s EXCEPT !.stack =
        SubSeq(s.stack, 1, Len(s.stack) - 1)
        \o Reverse(SplitWhitespace(ReadToString(IncludeFile(Top(s))[1])[1]))]

\* The iterator is in a turn that splices a file in.
Expanding(s) == s.stack # <<>> /\ Expands(Top(s))

\* What next() returns when its current turn returns.
Item(s) == IF s.stack = <<>> THEN None ELSE Some(Top(s))

-----------------------------------------------------------------------------
(* The arms of the match of _parse_arguments, lines 132-210.               *)

\* The arm an argument takes, in the order of the match.
Arm(a) ==
    IF ToStr(a) = None THEN "unhandled"
    ELSE IF a = Lit.c THEN "-c"
    ELSE IF a = Lit.o THEN "-o"
    ELSE IF a = Lit.gsplit_dwarf THEN "-gsplit-dwarf"
    ELSE IF argument_takes_value(a) THEN "takes_value"
    ELSE IF a = Lit.x THEN "-x"
    ELSE IF a \in {Lit.MF, Lit.MQ} THEN "-MF"
    ELSE IF a = Lit.MT THEN "-MT"
    ELSE IF CannotCacheFlag(a) # None THEN "cannot_cache"
    ELSE IF StartsWith(a, Lit.at) THEN "@file"
    ELSE IF a \in {Lit.M, Lit.MM, Lit.MD, Lit.MMD} THEN "dep"
    ELSE "unhandled"

\* The position "the value of this flag is being fetched".
AwaitValue(s) == [Popped(s) EXCEPT !.pc = "value", !.arg = Some(Top(s))]

\* The position "next turn of the while loop".
Continue(s) == [s EXCEPT !.pc = "scan", !.arg = None]

On_c(s) == [Popped(s) EXCEPT !.compilation = TRUE]

On_o(s) == AwaitValue(s)

\* On_gsplit_dwarf that keeps the flag and does not record it.
On_gsplit_dwarf_FlagOnly(s) ==
    [Popped(s) EXCEPT !.common_args = Append(@, Top(s))]

On_gsplit_dwarf(s) ==
    [Popped(s) EXCEPT !.split_dwarf = TRUE,
                      !.common_args = Append(@, Top(s))]

On_takes_value(s) == [AwaitValue(s) EXCEPT !.common_args = Append(@, Top(s))]

On_x(s) == AwaitValue(s)

On_MF_MQ(s) == [AwaitValue(s) EXCEPT !.preprocessor_args = Append(@, Top(s))]

On_MT(s) == AwaitValue(s)

On_cannot_cache(s) == Return(Popped(s), CannotCache(CannotCacheFlag(Top(s))[1]))

\* A surviving response-file reference taken as the input file.
On_at_file_AsInput(s) == [Popped(s) EXCEPT !.input_arg = Some(Top(s))]

On_at_file(s) == Return(Popped(s), CannotCache("@file"))

On_dep(s) ==
    [Popped(s) EXCEPT !.need_explicit_dep_target = TRUE,
                      !.preprocessor_args = Append(@, Top(s))]

\* arg.starts_with("-") && arg.len() > 1
IsFlag(a) == StartsWith(a, Lit.dash) /\ Len(a) > 1

\* On_flag that puts the flag in front of the others.
On_flag_Front(s) == [Popped(s) EXCEPT !.common_args = <<Top(s)>> \o @]

On_flag(s) == [Popped(s) EXCEPT !.common_args = Append(@, Top(s))]

\* On_input without the test for a bare "-".
On_input_NoStdin(s) ==
    IF s.input_arg # None
    THEN Return(Popped(s), CannotCache("multiple input files"))
    ELSE [Popped(s) EXCEPT !.input_arg = Some(Top(s))]

On_input(s) ==
    IF s.input_arg # None \/ Top(s) = Lit.dash
    THEN Return(Popped(s), CannotCache("multiple input files"))
    ELSE [Popped(s) EXCEPT !.input_arg = Some(Top(s))]

\* Value_o that falls back to a.out when no path follows -o.
Value_o_Default(s) ==
    Continue([Popped(s) EXCEPT
                 !.output_arg = IF Item(s) = None
                                THEN Some(<<"a", ".", "o", "u", "t">>)
                                ELSE Item(s)])

\* output_arg = it.next()
Value_o(s) == Continue([Popped(s) EXCEPT !.output_arg = Item(s)])

\* if let Some(arg_val) = it.next() { common_args.push(arg_val) }
Value_takes_value(s) ==
    Continue(IF Item(s) = None THEN s
             ELSE [Popped(s) EXCEPT !.common_args = Append(@, Top(s))])

\* it.next().unwrap(), then arg_val.to_str().unwrap() after the two pushes
Value_x(s) ==
    IF Item(s) = None THEN Panic(s)
    ELSE LET pushed == [Popped(s) EXCEPT
                           !.preprocessor_args = @ \o <<s.arg[1], Top(s)>>]
         IN  IF ToStr(Top(s)) = None THEN Panic(pushed)
             ELSE Continue([pushed EXCEPT !.force_input_type = ToStr(Top(s))])

Value_MF_MQ(s) ==
    Continue(IF Item(s) = None THEN s
             ELSE [Popped(s) EXCEPT !.preprocessor_args = Append(@, Top(s))])

\* Value_MT that drops the target.
Value_MT_Dropped(s) == Continue(Popped(s))

\* dep_target = it.next()
Value_MT(s) == Continue([Popped(s) EXCEPT !.dep_target = Item(s)])

-----------------------------------------------------------------------------
(* After the loop, lines 212-261.                                          *)

\* The language of the input: the forced type, else a known extension.
\* InputType that looks at the extension only.
InputType_ExtensionOnly(s) ==
    LET e == Extension(s.input_arg[1])
    IN  IF e # None /\ e[1] \in KnownExtensions THEN e ELSE None

InputType(s) ==
    IF s.force_input_type # None THEN s.force_input_type
    ELSE LET e == Extension(s.input_arg[1])
         IN  IF e # None /\ e[1] \in KnownExtensions THEN e ELSE None

\* Lines 216-261: the input, its language, the output, the result.
FinishCompilation(s) ==
    IF s.input_arg = None THEN Return(s, CannotCache("no input file"))
    ELSE IF InputType(s) = None
         THEN Return(s, CannotCache("unknown source extension"))
    ELSE IF s.output_arg = None THEN Return(s, CannotCache("no output file"))
    ELSE LET o == s.output_arg[1]
             dwo == IF s.split_dwarf
                    THEN "dwo" :> WithExtension(o, Lit.dwo)
                    ELSE <<>>
             pre == IF s.need_explicit_dep_target
                    THEN s.preprocessor_args
                         \o <<Lit.MT, IF s.dep_target # None THEN s.dep_target[1] ELSE o>>
                    ELSE s.preprocessor_args
         IN  Return([s EXCEPT !.preprocessor_args = pre],
                    Ok([ input |-> s.input_arg[1],
                         extension |-> InputType(s)[1],
                         depfile |-> None,
                         outputs |-> dwo @@ ("obj" :> o),
                         preprocessor_args |-> pre,
                         common_args |-> s.common_args,
                         msvc_show_includes |-> FALSE ]))

\* Finish with the input looked at before the compilation flag.
Finish_InputFirst(s) ==
    IF s.input_arg = None THEN Return(s, CannotCache("no input file"))
    ELSE IF ~s.compilation THEN Return(s, NotCompilation)
    ELSE FinishCompilation(s)

\* Lines 212-261: what the call returns once the arguments are exhausted.
Finish(s) ==
    IF ~s.compilation THEN Return(s, NotCompilation)
    ELSE FinishCompilation(s)

-----------------------------------------------------------------------------
(* compile, lines 288-325.                                                 *)

\* The -x value compile passes for a source language, lines 308-315.
LanguageTag(extension) ==
    IF extension = <<"c">>
    THEN Some(<<"c", "p", "p", "-", "o", "u", "t", "p", "u", "t">>)
    ELSE IF extension \in { <<"c", "+", "+">>, <<"c", "c">>, <<"c", "p", "p">>,
                            <<"c", "x", "x">> }
    THEN Some(<<"c", "+", "+", "-", "c", "p", "p", "-", "o", "u", "t", "p", "u", "t">>)
    ELSE None

\* compile: the arguments of the command it runs, or the error it returns.
compile(parsed_args) ==
    IF "obj" \notin DOMAIN parsed_args.outputs
    THEN [kind |-> "Err", message |-> "Missing object file output"]
    ELSE IF LanguageTag(parsed_args.extension) = None
    THEN [kind |-> "Err", message |-> "Unexpected file extension"]
    ELSE [kind |-> "Command",
          args |-> <<Lit.c, Lit.x>>
                   \o <<LanguageTag(parsed_args.extension)[1]>>
                   \o <<Lit.dash, Lit.o>> \o <<parsed_args.outputs["obj"]>>
                   \o parsed_args.common_args]

-----------------------------------------------------------------------------
(* The state machine.                                                      *)

Init ==
    /\ arguments \in ArgumentLists
    /\ stack = Reverse(arguments)
    /\ output_arg = None
    /\ input_arg = None
    /\ dep_target = None
    /\ common_args = <<>>
    /\ preprocessor_args = <<>>
    /\ compilation = FALSE
    /\ split_dwarf = FALSE
    /\ need_explicit_dep_target = FALSE
    /\ force_input_type = None
    /\ arg = None
    /\ pc = "scan"
    /\ result = NoResult
    /\ compiled = None
    /\ NoStorage
    /\ NoServer
    /\ NoBundle
    /\ NoFunction
    /\ NoDaemon

\* it.next() is about to return the argument of a loop turn that takes arm a.
Scanning(a) ==
    /\ pc = "scan"
    /\ ~Expanding(State)
    /\ stack # <<>>
    /\ Arm(Top(State)) = a

\* it.next() is about to return the value of a flag of arm a.
Fetching(a) ==
    /\ pc = "value"
    /\ ~Expanding(State)
    /\ Arm(arg[1]) = a

Expand == pc \in {"scan", "value"} /\ Expanding(State) /\ Become(ExpandTop(State))

Arg_c == Scanning("-c") /\ Become(On_c(State))

Arg_o == Scanning("-o") /\ Become(On_o(State))

Arg_gsplit_dwarf == Scanning("-gsplit-dwarf") /\ Become(On_gsplit_dwarf(State))

Arg_takes_value == Scanning("takes_value") /\ Become(On_takes_value(State))

Arg_x == Scanning("-x") /\ Become(On_x(State))

Arg_MF_MQ == Scanning("-MF") /\ Become(On_MF_MQ(State))

Arg_MT == Scanning("-MT") /\ Become(On_MT(State))

Arg_cannot_cache == Scanning("cannot_cache") /\ Become(On_cannot_cache(State))

Arg_at_file == Scanning("@file") /\ Become(On_at_file(State))

Arg_dep == Scanning("dep") /\ Become(On_dep(State))

Arg_flag ==
    Scanning("unhandled") /\ IsFlag(Top(State)) /\ Become(On_flag(State))

Arg_input ==
    Scanning("unhandled") /\ ~IsFlag(Top(State)) /\ Become(On_input(State))

Val_o == Fetching("-o") /\ Become(Value_o(State))

Val_takes_value == Fetching("takes_value") /\ Become(Value_takes_value(State))

Val_x == Fetching("-x") /\ Become(Value_x(State))

Val_MF_MQ == Fetching("-MF") /\ Become(Value_MF_MQ(State))

Val_MT == Fetching("-MT") /\ Become(Value_MT(State))

EndOfArgs == pc = "scan" /\ stack = <<>> /\ Become(Finish(State))

\* compile is called with the Ok result of the call.
Compile ==
    /\ pc = "done"
    /\ result.kind = "Ok"
    /\ compiled = None
    /\ compiled' = Some(compile(result.parsed))
    /\ UNCHANGED << arguments, stack, output_arg, input_arg, dep_target,
                    common_args, preprocessor_args, compilation, split_dwarf,
                    need_explicit_dep_target, force_input_type, arg, pc, result >>
    /\ UNCHANGED otherVars

Next ==
    \/ Expand
    \/ Arg_c
    \/ Arg_o
    \/ Arg_gsplit_dwarf
    \/ Arg_takes_value
    \/ Arg_x
    \/ Arg_MF_MQ
    \/ Arg_MT
    \/ Arg_cannot_cache
    \/ Arg_at_file
    \/ Arg_dep
    \/ Arg_flag
    \/ Arg_input
    \/ Val_o
    \/ Val_takes_value
    \/ Val_x
    \/ Val_MF_MQ
    \/ Val_MT
    \/ EndOfArgs
    \/ Compile

Spec == Init /\ [][Next]_vars

-----------------------------------------------------------------------------
(* The call as a function: the step the machine takes from a state, and    *)
(* the state in which a call on given arguments ends.                      *)

Step(s) ==
    IF s.pc \notin {"scan", "value"} THEN s
    ELSE IF Expanding(s) THEN ExpandTop(s)
    ELSE IF s.pc = "value" THEN
        (IF Arm(s.arg[1]) = "-o" THEN Value_o(s)
         ELSE IF Arm(s.arg[1]) = "takes_value" THEN Value_takes_value(s)
         ELSE IF Arm(s.arg[1]) = "-x" THEN Value_x(s)
         ELSE IF Arm(s.arg[1]) = "-MF" THEN Value_MF_MQ(s)
         ELSE Value_MT(s))
    ELSE IF s.stack = <<>> THEN Finish(s)
    ELSE LET a == Arm(Top(s))
         IN  IF a = "-c" THEN On_c(s)
             ELSE IF a = "-o" THEN On_o(s)
             ELSE IF a = "-gsplit-dwarf" THEN On_gsplit_dwarf(s)
             ELSE IF a = "takes_value" THEN On_takes_value(s)
             ELSE IF a = "-x" THEN On_x(s)
             ELSE IF a = "-MF" THEN On_MF_MQ(s)
             ELSE IF a = "-MT" THEN On_MT(s)
             ELSE IF a = "cannot_cache" THEN On_cannot_cache(s)
             ELSE IF a = "@file" THEN On_at_file(s)
             ELSE IF a = "dep" THEN On_dep(s)
             ELSE IF IsFlag(Top(s)) THEN On_flag(s)
             ELSE On_input(s)

RECURSIVE Run(_, _)
Run(s, n) ==
    IF n = 0 \/ s.pc \in {"done", "panic"} THEN s ELSE Run(Step(s), n - 1)

\* parse_arguments(args): how the call ends and what it returns.
parse_arguments(args) ==
    LET s == Run(Start(args), MaxSteps) IN <<s.pc, s.result>>

\* Every step of the machine is the step function's.
StepIsFunction == [][State' = Step(State)]_vars

-----------------------------------------------------------------------------
(* The vocabulary of the claims: the command line as a sequence of tokens, *)
(* read without reference to the classifier's state.                       *)

Done == pc = "done"

\* The call has ended: it returned, or it aborted.
Ended == pc \in {"done", "panic"}

Range(s) == {s[i] : i \in 1..Len(s)}

\* The tokens of the readable, quote-free response file a token names.
FileTokens(t) ==
    IF /\ t # <<>>
       /\ t[1] = "@"
       /\ Join(cwd, Tail(t)) \in DOMAIN Files
       /\ ~HasQuote(Files[Join(cwd, Tail(t))])
    THEN Some(SplitWhitespace(Files[Join(cwd, Tail(t))]))
    ELSE None

\* The command line with every such token replaced, in place and
\* recursively, by the tokens of its file.
RECURSIVE Splice(_)
Splice(args) ==
    IF args = <<>> THEN <<>>
    ELSE (IF FileTokens(Head(args)) = None THEN <<Head(args)>>
          ELSE Splice(FileTokens(Head(args))[1]))
         \o Splice(Tail(args))

\* The command line after response-file expansion.
Tokens == Splice(arguments)

\* The command line with the response file at position i replaced once.
ReplaceAt(args, i) ==
    SubSeq(args, 1, i - 1) \o FileTokens(args[i])[1] \o SubSeq(args, i + 1, Len(args))

\* The flags that consume the token after them.
TakesNext(t) ==
    t \in {Lit.o, Lit.x, Lit.MF, Lit.MQ, Lit.MT} \cup ARGS_WITH_VALUE

\* The positions of the arguments proper: the tokens that are not the value
\* consumed by the flag before them.
RECURSIVE HeadsFrom(_, _)
HeadsFrom(toks, i) ==
    IF i > Len(toks) THEN {}
    ELSE {i} \cup HeadsFrom(toks, IF TakesNext(toks[i]) THEN i + 2 ELSE i + 1)

Heads(toks) == HeadsFrom(toks, 1)

Forbidden == {Lit.fcxx_modules, Lit.fmodules, Lit.fsyntax_only, Lit.fprofile_use}

\* The reason a claim gives for a forbidden flag.
ClaimedReason(t) ==
    IF t \in {Lit.fcxx_modules, Lit.fmodules} THEN "clang modules"
    ELSE IF t = Lit.fsyntax_only THEN "-fsyntax-only"
    ELSE "pgo"

\* The extensions a claim names: c, cc, cpp, cxx, c++.
ClaimedExtensions ==
    { <<"c">>, <<"c", "c">>, <<"c", "p", "p">>, <<"c", "x", "x">>, <<"c", "+", "+">> }

HasClaimedExtension(t) ==
    Extension(t) # None /\ Extension(t)[1] \in ClaimedExtensions

\* A valid-Unicode token that begins with @.
IsAtToken(t) == ToStr(t) # None /\ t # <<>> /\ t[1] = "@"

\* A token that names an input: not a flag, not a response-file reference.
IsInputToken(t) == ~IsFlag(t) /\ ~IsAtToken(t)

\* The positions of the input arguments.
Inputs(toks) == {i \in Heads(toks) : IsInputToken(toks[i])}

\* A -x with no token after it, or with one that is not valid Unicode.
LacksValue(toks, i) ==
    toks[i] = Lit.x /\ (i = Len(toks) \/ ToStr(toks[i + 1]) = None)

\* The argument at position i ends the scan, ins being the positions of the
\* input arguments: a forbidden flag, a surviving response-file reference, a
\* second input, a bare "-", a -x without value.
StopsAt(toks, ins, i) ==
    \/ toks[i] \in Forbidden
    \/ IsAtToken(toks[i])
    \/ /\ i \in ins
       /\ (toks[i] = Lit.dash \/ \E j \in ins : j < i)
    \/ LacksValue(toks, i)

Stops(toks) ==
    LET ins == Inputs(toks)
    IN  {i \in Heads(toks) : StopsAt(toks, ins, i)}

\* The position of the first argument that ends the scan, 0 when none does.
FirstStop(toks) ==
    LET S == Stops(toks)
    IN  IF S = {} THEN 0 ELSE CHOOSE i \in S : \A j \in S : i <= j

\* The first argument that ends the scan is a -x without a valid value: the
\* call aborts there.
AbortsFirst(toks) ==
    FirstStop(toks) # 0 /\ LacksValue(toks, FirstStop(toks))

-----------------------------------------------------------------------------
(* C1 *)

\* The shape C1 names, token by token: a -c, exactly one -o, at position io,
\* followed by a path, exactly one other non-flag token, at position k, with a
\* recognised extension, and otherwise only flags outside the forbidden set.
C1_Shape(toks, io, k) ==
    /\ \E j \in 1..Len(toks) : toks[j] = Lit.c
    /\ io \in 1..(Len(toks) - 1)
    /\ toks[io] = Lit.o
    /\ \A j \in 1..Len(toks) : toks[j] = Lit.o => j = io
    /\ ~IsFlag(toks[io + 1])
    /\ k \in 1..Len(toks) \ {io, io + 1}
    /\ ~IsFlag(toks[k])
    /\ HasClaimedExtension(toks[k])
    /\ \A j \in 1..Len(toks) \ {io, io + 1, k} :
          IsFlag(toks[j]) /\ toks[j] \notin Forbidden

\* C1 as stated: every command line of that shape is classified Ok, with the
\* path after -o as outputs["obj"] and the non-flag token as input.
C1_Original ==
    Done =>
        \A io, k \in 1..Len(Tokens) :
            C1_Shape(Tokens, io, k) =>
                /\ result.kind = "Ok"
                /\ result.parsed.outputs["obj"] = Tokens[io + 1]
                /\ result.parsed.input = Tokens[k]

\* The shape of C1 read argument by argument: every flag that takes a value
\* is followed by a value of its own (for -x a valid-Unicode one), and the
\* arguments proper are a -c, exactly one -o (at io), exactly one input (at
\* k) with a recognised extension, and otherwise flags outside the forbidden
\* set.
C1_WellFormed(toks, io, k) ==
    /\ toks[io] = Lit.o
    /\ IsInputToken(toks[k])
    /\ HasClaimedExtension(toks[k])
    /\ LET H == Heads(toks)
       IN  /\ io \in H
           /\ k \in H
           /\ \A i \in H : TakesNext(toks[i]) => i < Len(toks)
           /\ \A i \in H : ~LacksValue(toks, i)
           /\ \E i \in H : toks[i] = Lit.c
           /\ \A j \in H : toks[j] = Lit.o => j = io
           /\ \A j \in H \ {io, k} : IsFlag(toks[j]) /\ toks[j] \notin Forbidden

\* C1 (amended): a command line made of a -c, exactly one -o <path>, exactly
\* one input with a recognised extension, plain flags outside the forbidden
\* set, and value-taking flags each followed by a value of its own, is
\* classified Ok, with outputs["obj"] the path and input the input token.
C1_OkForWellFormed ==
    Ended =>
        LET toks == Tokens
        IN  \A io, k \in 1..Len(toks) :
                C1_WellFormed(toks, io, k) =>
                    /\ Done
                    /\ result.kind = "Ok"
                    /\ result.parsed.outputs["obj"] = toks[io + 1]
                    /\ result.parsed.input = toks[k]

\* A well-formed command line with a value-taking flag and its value has
\* been classified.
C1_Witness ==
    /\ Done
    /\ \E io, k \in 1..Len(Tokens) : C1_WellFormed(Tokens, io, k)
    /\ \E i \in Heads(Tokens) : argument_takes_value(Tokens[i])
    /\ result.kind = "Ok"

-----------------------------------------------------------------------------
(* C2 *)

\* C2 as stated: a command line without -c is classified NotCompilation,
\* whatever else it contains.
C2_Original ==
    (Done /\ Lit.c \notin Range(Tokens)) => result = NotCompilation

\* C2 (amended): a command line without -c is classified NotCompilation
\* unless one of its arguments ends the scan first; then it is classified
\* CannotCache with the reason of an early return, never Ok.
C2_NotCompilationUnlessStopped ==
    (Ended /\ Lit.c \notin Range(Tokens)) =>
        IF Stops(Tokens) = {} THEN Done /\ result = NotCompilation
        ELSE IF AbortsFirst(Tokens) THEN pc = "panic"
        ELSE /\ Done
             /\ result.kind = "CannotCache"
             /\ result.reason \in {"clang modules", "-fsyntax-only", "pgo",
                                   "@file", "multiple input files"}

\* A command line with an output, an input and a flag, and no -c, has been
\* classified NotCompilation.
C2_Witness ==
    /\ Done
    /\ Lit.c \notin Range(Tokens)
    /\ Lit.o \in Range(Tokens)
    /\ Inputs(Tokens) # {}
    /\ result = NotCompilation

-----------------------------------------------------------------------------
(* C3 *)

\* C3 as stated: the call never aborts, and what it returns is one of the
\* three variants.
C3_NeverAborts ==
    /\ pc # "panic"
    /\ Done => result.kind \in {"NotCompilation", "CannotCache", "Ok"}

-----------------------------------------------------------------------------
(* C4 *)

\* A cannot-cache condition of C4, token by token: a forbidden flag, a token
\* that begins with @, a bare "-", or a non-flag token after another one.
C4_Condition(toks, j) ==
    \/ toks[j] \in Forbidden
    \/ IsAtToken(toks[j])
    \/ /\ IsInputToken(toks[j])
       /\ (toks[j] = Lit.dash \/ \E h \in 1..(j - 1) : IsInputToken(toks[h]))

\* C4 as stated: a command line in which a forbidden flag occurs is
\* classified CannotCache, and when that flag is the first cannot-cache
\* condition in token order the reason is the one the flag gives.
C4_Original ==
    Done =>
        \A i \in 1..Len(Tokens) :
            Tokens[i] \in Forbidden =>
                /\ result.kind = "CannotCache"
                /\ (\A j \in 1..(i - 1) : ~C4_Condition(Tokens, j))
                       => result.reason = ClaimedReason(Tokens[i])

\* C4 (amended): a command line in which a forbidden flag occurs as an
\* argument of its own (not as the value of the flag before it) is
\* classified CannotCache, with that flag's reason when it is the first
\* argument that ends the scan; the one exception is the abort at an earlier
\* -x without a valid value.
C4_ForbiddenArgument ==
    Ended =>
        LET toks == Tokens
        IN  \A i \in Heads(toks) :
                toks[i] \in Forbidden =>
                    IF AbortsFirst(toks) THEN pc = "panic"
                    ELSE /\ Done
                         /\ result.kind = "CannotCache"
                         /\ FirstStop(toks) = i
                                => result.reason = ClaimedReason(toks[i])

\* A forbidden flag in the middle of a command line, after an input, has
\* ended the scan.
C4_Witness ==
    /\ Done
    /\ \E i \in Heads(Tokens) :
          /\ Tokens[i] \in Forbidden
          /\ FirstStop(Tokens) = i
          /\ 1 < i /\ i < Len(Tokens)
          /\ Inputs(Tokens) # {}
          /\ result = CannotCache(ClaimedReason(Tokens[i]))

-----------------------------------------------------------------------------
(* C5 *)

\* C5 as stated: an Ok result has an obj output, its input is one token of
\* the command line and is not "-", and no forbidden flag is among its
\* common_args or preprocessor_args.
C5_Original ==
    (Done /\ result.kind = "Ok") =>
        /\ "obj" \in DOMAIN result.parsed.outputs
        /\ result.parsed.input \in Range(Tokens)
        /\ result.parsed.input # Lit.dash
        /\ \A f \in Forbidden :
              /\ f \notin Range(result.parsed.common_args)
              /\ f \notin Range(result.parsed.preprocessor_args)

\* C5 (amended): an Ok result has an obj output, its input is the one input
\* argument of the command line and is not "-", and no forbidden flag is an
\* argument of the command line, of its common_args or of its
\* preprocessor_args: one occurs there only as the value of the flag before
\* it.
C5_ParsedInvariant ==
    (Done /\ result.kind = "Ok") =>
        /\ "obj" \in DOMAIN result.parsed.outputs
        /\ \E k \in Heads(Tokens) :
              /\ Inputs(Tokens) = {k}
              /\ result.parsed.input = Tokens[k]
        /\ result.parsed.input # Lit.dash
        /\ \A i \in Heads(Tokens) : Tokens[i] \notin Forbidden
        /\ \A k \in Heads(result.parsed.common_args) :
              result.parsed.common_args[k] \notin Forbidden
        /\ \A k \in 1..Len(result.parsed.preprocessor_args) :
              result.parsed.preprocessor_args[k] \in Forbidden =>
                  /\ k > 1
                  /\ result.parsed.preprocessor_args[k - 1]
                        \in {Lit.x, Lit.MF, Lit.MQ, Lit.MT}

\* An Ok result that carries a forbidden flag as a value in common_args.
C5_Witness ==
    /\ Done
    /\ result.kind = "Ok"
    /\ \E k \in 2..Len(result.parsed.common_args) :
          /\ result.parsed.common_args[k] \in Forbidden
          /\ argument_takes_value(result.parsed.common_args[k - 1])

-----------------------------------------------------------------------------
(* C6 *)

-----------------------------------------------------------------------------
(* C7 *)

\* C7: the call on a command line that names a readable, quote-free
\* response file ends as the call on the command line with that token
\* replaced, in place and in order, by the tokens of the file, and as the
\* call on the command line with every such token replaced recursively.
C7_ResponseFileSpliced ==
    Ended =>
        /\ \A i \in 1..Len(arguments) :
              FileTokens(arguments[i]) # None =>
                  parse_arguments(ReplaceAt(arguments, i)) = <<pc, result>>
        /\ parse_arguments(Splice(arguments)) = <<pc, result>>

\* A command line that names a response file which names another one, with
\* arguments around it, has been classified Ok.
C7_Witness ==
    /\ Done
    /\ \E i \in 1..Len(arguments) :
          /\ arguments[i] = Tok.nest
          /\ Len(arguments) > 1
    /\ Len(Tokens) > Len(arguments)
    /\ result.kind = "Ok"

-----------------------------------------------------------------------------
(* C8 *)

\* C8: when the scan reaches an input argument that is a bare "-" or comes
\* after another input argument, the command line is classified
\* CannotCache("multiple input files"), whether or not -c or -o appear.
C8_MultipleInputs ==
    Ended =>
        LET toks == Tokens
            ins == Inputs(toks)
            first == FirstStop(toks)
        IN  \A i \in ins :
                ( /\ (toks[i] = Lit.dash \/ \E j \in ins : j < i)
                  /\ first = i )
                => Done /\ result = CannotCache("multiple input files")

\* A second input has ended the scan of a command line without -c.
C8_Witness ==
    /\ Done
    /\ Lit.c \notin Range(Tokens)
    /\ \E i \in Heads(Tokens) :
          /\ IsInputToken(Tokens[i])
          /\ Tokens[i] # Lit.dash
          /\ \E j \in Inputs(Tokens) : j < i
          /\ FirstStop(Tokens) = i
    /\ result = CannotCache("multiple input files")

-----------------------------------------------------------------------------
(* C9 *)

\* C9 as stated: a command line that contains -c and no -o followed by a
\* path is classified CannotCache("no output file").
C9_Original ==
    ( /\ Done
      /\ Lit.c \in Range(Tokens)
      /\ ~\E i \in 1..(Len(Tokens) - 1) : Tokens[i] = Lit.o )
    => result = CannotCache("no output file")

\* The positions of the -x arguments.
XHeads(toks) == {i \in Heads(toks) : toks[i] = Lit.x}

\* The command line has exactly one input argument, at k, whose language is
\* known: from a -x argument, or from a recognised extension.
KnownInput(toks, k) ==
    /\ Inputs(toks) = {k}
    /\ (XHeads(toks) # {} \/ HasClaimedExtension(toks[k]))

\* C9 (amended): a command line with -c as an argument, no -o <path>
\* argument, no argument that ends the scan, and one input whose language is
\* known is classified CannotCache("no output file").
C9_NoOutputFile ==
    Ended =>
        LET toks == Tokens
            H == Heads(toks)
        IN  ( /\ \E i \in H : toks[i] = Lit.c
              /\ ~\E i \in H : toks[i] = Lit.o /\ i < Len(toks)
              /\ Stops(toks) = {}
              /\ \E k \in H : KnownInput(toks, k) )
            => Done /\ result = CannotCache("no output file")

\* A compilation of one input with a recognised extension and a trailing -o
\* that no path follows has been classified.
C9_Witness ==
    /\ Done
    /\ \E i \in Heads(Tokens) : Tokens[i] = Lit.c
    /\ Tokens[Len(Tokens)] = Lit.o
    /\ \E k \in Heads(Tokens) : KnownInput(Tokens, k)
    /\ result = CannotCache("no output file")

-----------------------------------------------------------------------------
(* C10 *)

\* C10 as stated: in an Ok result the language is the value given to -x when
\* -x is present, and otherwise the extension of the input, one of c, cc,
\* cpp, cxx, c++; a compilation whose input has another extension or none,
\* and no -x, is classified CannotCache("unknown source extension").
C10_Original ==
    Done =>
        /\ result.kind = "Ok" =>
              IF XHeads(Tokens) # {}
              THEN \E i \in XHeads(Tokens) :
                      i < Len(Tokens) /\ result.parsed.extension = Tokens[i + 1]
              ELSE /\ Extension(result.parsed.input) = Some(result.parsed.extension)
                   /\ result.parsed.extension \in ClaimedExtensions
        /\ ( /\ \E i \in Heads(Tokens) : Tokens[i] = Lit.c
             /\ XHeads(Tokens) = {}
             /\ \E k \in Heads(Tokens) :
                   Inputs(Tokens) = {k} /\ ~HasClaimedExtension(Tokens[k]) )
           => result = CannotCache("unknown source extension")

\* The position of the last -x argument.
LastX(toks) == CHOOSE i \in XHeads(toks) : \A j \in XHeads(toks) : j <= i

\* C10 (amended): in an Ok result the language is the value given to the
\* last -x when -x is present, and otherwise the extension of the input, one
\* of c, cc, cpp, cxx, c++; a compilation with no argument that ends the
\* scan, whose input has another extension or none, and no -x, is classified
\* CannotCache("unknown source extension").
C10_SourceLanguage ==
    Ended =>
        LET toks == Tokens
            H == Heads(toks)
            xs == XHeads(toks)
            last == LastX(toks)
        IN  /\ (Done /\ result.kind = "Ok") =>
                  IF xs # {}
                  THEN /\ last < Len(toks)
                       /\ result.parsed.extension = toks[last + 1]
                  ELSE /\ Extension(result.parsed.input) = Some(result.parsed.extension)
                       /\ result.parsed.extension \in ClaimedExtensions
            /\ ( /\ \E i \in H : toks[i] = Lit.c
                 /\ xs = {}
                 /\ Stops(toks) = {}
                 /\ \E k \in H :
                       Inputs(toks) = {k} /\ ~HasClaimedExtension(toks[k]) )
               => Done /\ result = CannotCache("unknown source extension")

\* An Ok result whose language comes from -x and differs from the extension
\* of its input.
C10_Witness ==
    /\ Done
    /\ result.kind = "Ok"
    /\ XHeads(Tokens) # {}
    /\ HasClaimedExtension(result.parsed.input)
    /\ Extension(result.parsed.input) # Some(result.parsed.extension)

-----------------------------------------------------------------------------
(* C11 *)

\* The flags that ask for dependency output.
DepFlags == {Lit.M, Lit.MM, Lit.MD, Lit.MMD}

\* The positions of the -MT arguments.
MTHeads(toks) == {i \in Heads(toks) : toks[i] = Lit.MT}

\* The position of the last -MT argument.
LastMT(toks) == CHOOSE i \in MTHeads(toks) : \A j \in MTHeads(toks) : j <= i

\* C11 as stated: in an Ok result of a command line on which -M, -MM, -MD or
\* -MMD is present, preprocessor_args ends with -MT and the target, the
\* value of an explicit -MT when one was given and the -o path otherwise;
\* when none is present, no -MT followed by a target is in preprocessor_args.
C11_Original ==
    (Done /\ result.kind = "Ok") =>
        LET toks == Tokens
            pre == result.parsed.preprocessor_args
            given == {i \in 1..(Len(toks) - 1) : toks[i] = Lit.MT}
        IN  IF \E i \in 1..Len(toks) : toks[i] \in DepFlags
            THEN /\ Len(pre) >= 2
                 /\ pre[Len(pre) - 1] = Lit.MT
                 /\ IF given # {}
                    THEN \E i \in given : pre[Len(pre)] = toks[i + 1]
                    ELSE pre[Len(pre)] = result.parsed.outputs["obj"]
            ELSE ~\E k \in 1..(Len(pre) - 1) : pre[k] = Lit.MT

\* C11 (amended): in an Ok result of a command line with -M, -MM, -MD or
\* -MMD as an argument of its own, preprocessor_args ends with -MT and the
\* target, the value of the last -MT argument when that one has a value and
\* the -o path otherwise; with no such argument, -MT is in preprocessor_args
\* only as the value of the flag before it.
C11_DepTarget ==
    (Done /\ result.kind = "Ok") =>
        LET toks == Tokens
            H == Heads(toks)
            pre == result.parsed.preprocessor_args
            mts == MTHeads(toks)
        IN  IF \E i \in H : toks[i] \in DepFlags
            THEN /\ Len(pre) >= 2
                 /\ pre[Len(pre) - 1] = Lit.MT
                 /\ pre[Len(pre)] =
                       IF mts # {} /\ LastMT(toks) < Len(toks)
                       THEN toks[LastMT(toks) + 1]
                       ELSE result.parsed.outputs["obj"]
            ELSE \A k \in Heads(pre) : pre[k] # Lit.MT

\* An Ok result whose dependency target is the value of an explicit -MT and
\* differs from the -o path.
C11_Witness ==
    /\ Done
    /\ result.kind = "Ok"
    /\ \E i \in Heads(Tokens) : Tokens[i] \in DepFlags
    /\ MTHeads(Tokens) # {}
    /\ LET pre == result.parsed.preprocessor_args
       IN  /\ Len(pre) >= 3
           /\ pre[Len(pre) - 1] = Lit.MT
           /\ pre[Len(pre)] # result.parsed.outputs["obj"]

-----------------------------------------------------------------------------
(* C12 *)

\* The flags C12 names as kept out of common_args.
NotCommon ==
    {Lit.c, Lit.o, Lit.x, Lit.MF, Lit.MQ, Lit.MT, Lit.M, Lit.MM, Lit.MD, Lit.MMD}

\* A token of length >= 2 that begins with '-' and is none of those.
IsCommonFlag(t) == IsFlag(t) /\ t \notin NotCommon

\* The sequence C12 names, token by token from position i: -gsplit-dwarf,
\* each flag of ARGS_WITH_VALUE with the token after it, and every other
\* token that begins with '-' and is none of the flags named.
RECURSIVE C12_TokenwiseFrom(_, _)
C12_TokenwiseFrom(toks, i) ==
    IF i > Len(toks) THEN <<>>
    ELSE IF argument_takes_value(toks[i])
         THEN (IF i < Len(toks) THEN <<toks[i], toks[i + 1]>> ELSE <<toks[i]>>)
              \o C12_TokenwiseFrom(toks, i + 2)
    ELSE (IF IsCommonFlag(toks[i]) THEN <<toks[i]>> ELSE <<>>)
         \o C12_TokenwiseFrom(toks, i + 1)

\* C12 as stated: in an Ok result common_args is exactly that sequence, and
\* none of its tokens is in preprocessor_args.
C12_Original ==
    (Done /\ result.kind = "Ok") =>
        LET common == C12_TokenwiseFrom(Tokens, 1)
        IN  /\ result.parsed.common_args = common
            /\ Range(common) \cap Range(result.parsed.preprocessor_args) = {}

\* The same sequence argument by argument, from position i: the token a
\* flag of another kind (-o, -x, -MF, -MQ, -MT) consumed is no argument.
RECURSIVE CommonFrom(_, _)
CommonFrom(toks, i) ==
    IF i > Len(toks) THEN <<>>
    ELSE IF argument_takes_value(toks[i])
         THEN (IF i < Len(toks) THEN <<toks[i], toks[i + 1]>> ELSE <<toks[i]>>)
              \o CommonFrom(toks, i + 2)
    ELSE IF TakesNext(toks[i]) THEN CommonFrom(toks, i + 2)
    ELSE (IF IsCommonFlag(toks[i]) THEN <<toks[i]>> ELSE <<>>)
         \o CommonFrom(toks, i + 1)

\* The arguments that go to the preprocessor only, from position i: -x,
\* -MF and -MQ with the token each consumed, and -M, -MM, -MD, -MMD.
RECURSIVE PreprocessorFrom(_, _)
PreprocessorFrom(toks, i) ==
    IF i > Len(toks) THEN <<>>
    ELSE IF toks[i] \in {Lit.x, Lit.MF, Lit.MQ}
         THEN (IF i < Len(toks) THEN <<toks[i], toks[i + 1]>> ELSE <<toks[i]>>)
              \o PreprocessorFrom(toks, i + 2)
    ELSE IF TakesNext(toks[i]) THEN PreprocessorFrom(toks, i + 2)
    ELSE (IF toks[i] \in DepFlags THEN <<toks[i]>> ELSE <<>>)
         \o PreprocessorFrom(toks, i + 1)

\* C12 (amended): in an Ok result common_args is exactly, in order, the
\* sequence of the arguments that are -gsplit-dwarf, a flag of
\* ARGS_WITH_VALUE with the token it consumed, or another flag that is none
\* of those named; preprocessor_args holds none of them as an argument: it
\* is the sequence of the -x, -MF, -MQ arguments with the token each
\* consumed and of the -M, -MM, -MD, -MMD arguments, followed by the -MT
\* pair when one of the latter is there.
C12_CommonArgs ==
    (Done /\ result.kind = "Ok") =>
        LET toks == Tokens
            pre == result.parsed.preprocessor_args
            scanned == PreprocessorFrom(toks, 1)
        IN  /\ result.parsed.common_args = CommonFrom(toks, 1)
            /\ SubSeq(pre, 1, Len(scanned)) = scanned
            /\ IF \E i \in Heads(toks) : toks[i] \in DepFlags
               THEN /\ Len(pre) = Len(scanned) + 2
                    /\ pre[Len(pre) - 1] = Lit.MT
               ELSE pre = scanned

\* An Ok result whose common_args holds a flag, then a value-taking flag and
\* the token it consumed, from a command line with other arguments between.
C12_Witness ==
    /\ Done
    /\ result.kind = "Ok"
    /\ LET common == result.parsed.common_args
       IN  \E k \in 2..(Len(common) - 1) :
              /\ argument_takes_value(common[k])
              /\ ~argument_takes_value(common[k - 1])
    /\ Len(Tokens) > Len(result.parsed.common_args) + 2

-----------------------------------------------------------------------------
(* C13 *)

\* The path p with its extension replaced by dwo, or with .dwo added when it
\* has none.
DwoOf(p) ==
    IF Extension(p) = None THEN p \o <<".">> \o Lit.dwo
    ELSE SubSeq(p, 1, Len(p) - Len(Extension(p)[1])) \o Lit.dwo

\* What C13 says of an Ok result, given whether -gsplit-dwarf was on the
\* line.
C13_Outputs(split) ==
    LET outputs == result.parsed.outputs
    IN  /\ ("dwo" \in DOMAIN outputs) <=> split
        /\ "dwo" \in DOMAIN outputs =>
              /\ outputs["dwo"] = DwoOf(outputs["obj"])
              /\ Lit.gsplit_dwarf \in Range(result.parsed.common_args)
        /\ DOMAIN outputs \subseteq {"obj", "dwo"}

\* C13 as stated: an Ok result has a dwo output exactly when -gsplit-dwarf
\* was on the line; it is the obj path with the extension replaced by dwo,
\* the flag is in common_args, and outputs has no key but obj and dwo.
C13_Original ==
    (Done /\ result.kind = "Ok") =>
        C13_Outputs(Lit.gsplit_dwarf \in Range(Tokens))

\* C13 (amended): the same, -gsplit-dwarf being on the line as an argument
\* of its own, not as the value of the flag before it.
C13_SplitDwarf ==
    (Done /\ result.kind = "Ok") =>
        LET toks == Tokens
        IN  C13_Outputs(\E i \in Heads(toks) : toks[i] = Lit.gsplit_dwarf)

\* An Ok result with a dwo output beside the obj output.
C13_Witness ==
    /\ Done
    /\ result.kind = "Ok"
    /\ DOMAIN result.parsed.outputs = {"obj", "dwo"}
    /\ result.parsed.outputs["dwo"] # result.parsed.outputs["obj"]
    /\ Len(result.parsed.outputs["dwo"]) = Len(result.parsed.outputs["obj"]) + 2

-----------------------------------------------------------------------------
(* C14 *)

\* C14: for every Ok result of the classifier, compile issues the command
\* -c -x <tag> - -o <obj> and the common flags, with tag cpp-output for C
\* and c++-cpp-output for C++, and returns no error.
C14_CompileCommand ==
    compiled # None =>
        /\ compiled[1].kind = "Command"
        /\ \E tag \in { <<"c", "p", "p", "-", "o", "u", "t", "p", "u", "t">>,
                        <<"c", "+", "+", "-", "c", "p", "p", "-", "o", "u", "t", "p", "u", "t">> } :
              compiled[1].args =
                  <<Lit.c, Lit.x, tag, Lit.dash, Lit.o, result.parsed.outputs["obj"]>>
                  \o result.parsed.common_args
        /\ result.parsed.extension = <<"c">> =>
              compiled[1].args[3] = <<"c", "p", "p", "-", "o", "u", "t", "p", "u", "t">>
        /\ result.parsed.extension \in ClaimedExtensions \ {<<"c">>} =>
              compiled[1].args[3] =
                  <<"c", "+", "+", "-", "c", "p", "p", "-", "o", "u", "t", "p", "u", "t">>

-----------------------------------------------------------------------------
(* The disk backend: a directory of bundles bounded in size, with an index *)
(* in least-recently-used order.                                           *)

\* Largest max_size Init draws.
MaxSize == 3

\* Largest bundle, in bytes, a put is given.
MaxBundleSize == 3

Keys == {"f1", "f2"}

Bundles == [id : {"v1", "v2"}, size : 1..MaxBundleSize]

Miss == [kind |-> "Miss"]

Hit(v) == [kind |-> "Hit", bundle |-> v]

\* The running total of the index.
RECURSIVE SizeOf(_)
SizeOf(c) == IF c = <<>> THEN 0 ELSE Head(c).bundle.size + SizeOf(Tail(c))

\* The index without key k.
RECURSIVE Without(_, _)
Without(c, k) ==
    IF c = <<>> THEN <<>>
    ELSE IF Head(c).key = k THEN Without(Tail(c), k)
    ELSE <<Head(c)>> \o Without(Tail(c), k)

IndexKeys(c) == {c[i].key : i \in 1..Len(c)}

Entry(c, k) == CHOOSE e \in Range(c) : e.key = k

\* Eviction that spares the entry just written.
RECURSIVE Evict_KeepNewest(_, _)
Evict_KeepNewest(c, max) ==
    IF Len(c) > 1 /\ SizeOf(c) > max THEN Evict_KeepNewest(Tail(c), max) ELSE c

\* while total > max_size, evict the least recently used entry
RECURSIVE Evict(_, _)
Evict(c, max) ==
    IF c # <<>> /\ SizeOf(c) > max THEN Evict(Tail(c), max) ELSE c

\* A put that leaves the bundle of a key already in the index as it is.
DiskPut_KeepOld(c, max, k, v) ==
    IF k \in IndexKeys(c)
    THEN Evict(Without(c, k) \o <<Entry(c, k)>>, max)
    ELSE Evict(c \o <<[key |-> k, bundle |-> v]>>, max)

\* put: the file is written and renamed, the index updated with the key as
\* most recently used, and entries are evicted while the total is too large.
DiskPut(c, max, k, v) ==
    Evict(Without(c, k) \o <<[key |-> k, bundle |-> v]>>, max)

\* get: what is returned.
DiskGet(c, k) == IF k \in IndexKeys(c) THEN Hit(Entry(c, k).bundle) ELSE Miss

\* get: the index afterwards, the key touched as most recently used.
DiskTouch(c, k) ==
    IF k \in IndexKeys(c) THEN Without(c, k) \o <<Entry(c, k)>> ELSE c

current_size == SizeOf(cache)

\* No call of the classifier is in progress.
NoCall ==
    /\ arguments = <<>>
    /\ stack = <<>>
    /\ output_arg = None
    /\ input_arg = None
    /\ dep_target = None
    /\ common_args = <<>>
    /\ preprocessor_args = <<>>
    /\ compilation = FALSE
    /\ split_dwarf = FALSE
    /\ need_explicit_dep_target = FALSE
    /\ force_input_type = None
    /\ arg = None
    /\ pc = "idle"
    /\ result = NoResult
    /\ compiled = None

StorageInit ==
    /\ NoCall
    /\ max_size \in 0..MaxSize
    /\ cache = <<>>
    /\ got = None
    /\ written = <<>>
    /\ evicted = {}
    /\ NoServer
    /\ NoBundle
    /\ NoFunction
    /\ NoDaemon

Put(k, v) ==
    /\ cache' = DiskPut(cache, max_size, k, v)
    /\ got' = None
    /\ written' = (k :> v) @@ written
    /\ evicted' = (evicted \ {k}) \cup ((IndexKeys(cache) \cup {k}) \ IndexKeys(cache'))
    /\ UNCHANGED << max_size, callVars, serverVars, bundleVars, restVars >>

Get(k) ==
    /\ got' = Some([key |-> k, result |-> DiskGet(cache, k)])
    /\ cache' = DiskTouch(cache, k)
    /\ UNCHANGED << max_size, written, evicted, callVars, serverVars, bundleVars, restVars >>

StorageNext ==
    \/ \E k \in Keys, v \in Bundles : Put(k, v)
    \/ \E k \in Keys : Get(k)

SpecStorage == StorageInit /\ [][StorageNext]_vars

-----------------------------------------------------------------------------
(* Config::create, config.rs lines 93-226: force_recache.                  *)

\* SCCACHE_RECACHE: not in the environment, a string, or bytes that are
\* not valid Unicode.
EnvValues ==
    {[kind |-> "NotPresent"], [kind |-> "NotUnicode"]}
        \cup {[kind |-> "Unicode", value |-> v] : v \in {"0", "1", ""}}

\* force_recache in the configuration file: no such key, a boolean, or a
\* value of another type.
ConfValues ==
    {[kind |-> "Absent"], [kind |-> "String", str |-> "true"]}
        \cup {[kind |-> "Boolean", bool |-> b] : b \in BOOLEAN}

\* env::var(name).ok(): Err(NotPresent) and Err(NotUnicode) both give None.
env_var_ok(e) == IF e.kind = "Unicode" THEN Some(e.value) ELSE None

\* bool_from_env, lines 134-136
bool_from_env(e) ==
    IF env_var_ok(e) = None THEN None ELSE Some(env_var_ok(e)[1] # "0")

\* bool_from_config, lines 126-128
bool_from_config(c) == IF c.kind = "Boolean" THEN Some(c.bool) ELSE None

\* Option::or
Or(a, b) == IF a # None THEN a ELSE b

\* Option::unwrap_or
UnwrapOr(a, default) == IF a # None THEN a[1] ELSE default

\* line 216
force_recache ==
    UnwrapOr(Or(bool_from_env(env_recache), bool_from_config(conf_recache)),
             FALSE)

-----------------------------------------------------------------------------
(* The daemon's pipeline for one compile request after another.            *)

\* Compile requests between two resets of the counters, at most.
MaxRequests == 3

Recache == [kind |-> "Recache"]

\* What a child process leaves: exit status, stdout, stderr.
ChildOutputs ==
    {[status |-> 0, stdout |-> "out", stderr |-> ""],
     [status |-> 1, stdout |-> "out", stderr |-> "err"]}

\* What the classifier makes of a request's command line.
Classes == {"Cacheable", "CannotCache", "NotCompilation"}

Terminal == {"Delivered", "Surfaced", "CannotCache", "NotCompilation"}

\* The bundle packed from the outputs of a compilation with fingerprint k.
BundleOf(k) ==
    IF k = "f1" THEN [id |-> "v1", size |-> 1] ELSE [id |-> "v2", size |-> 2]

NoRequest == [state |-> "Idle"]

ZeroedStats ==
    [compile_requests |-> 0, requests_executed |-> 0,
     requests_not_cacheable |-> 0, requests_not_compile |-> 0,
     cache_hits |-> 0, cache_misses |-> 0, cache_errors |-> 0,
     forced_recaches |-> 0]

\* Nothing requested yet since the counters were zero, the cache holding
\* the keys held.
Fresh(held) ==
    [n |-> 0, fingerprints |-> {}, cacheable |-> TRUE, clean |-> TRUE,
     objects |-> TRUE, held |-> held]

\* The request r has ended with fingerprint fp ("none" when preprocessing
\* failed), the object file being obj.
Ending(r, fp, obj) ==
    [since EXCEPT !.fingerprints = @ \cup {fp},
                  !.clean = @ /\ r.state = "Delivered",
                  !.objects = @ /\ obj # None]

ServerInit ==
    /\ NoCall
    /\ max_size \in 0..MaxSize
    /\ cache = <<>>
    /\ got = None
    /\ written = <<>>
    /\ evicted = {}
    /\ env_recache \in EnvValues
    /\ conf_recache \in ConfValues
    /\ stats = ZeroedStats
    /\ req = NoRequest
    /\ object = None
    /\ since = Fresh({})
    /\ NoBundle
    /\ NoFunction
    /\ NoDaemon

\* A client sends Compile; the daemon counts it.
Receive(class, key, pre, child) ==
    /\ req.state \in Terminal \cup {"Idle"}
    /\ stats.compile_requests < MaxRequests
    /\ req' = [state |-> "Received", class |-> class, key |-> key,
               pre |-> pre, child |-> child, lookup |-> None,
               ran |-> FALSE, put |-> FALSE, response |-> None,
               before |-> [cache |-> cache,
                           cache_errors |-> stats.cache_errors]]
    /\ stats' = [stats EXCEPT !.compile_requests = @ + 1]
    /\ object' = None
    /\ since' = [since EXCEPT !.n = @ + 1,
                              !.cacheable = @ /\ class = "Cacheable"]
    /\ UNCHANGED << env_recache, conf_recache, storageVars, callVars, bundleVars,
                    restVars >>

\* Received -> Classified -> (CannotCache | NotCompilation | Cacheable)
Classify ==
    /\ req.state = "Received"
    /\ IF req.class = "Cacheable"
       THEN /\ req' = [req EXCEPT !.state = "Preprocessing"]
            /\ stats' = [stats EXCEPT !.requests_executed = @ + 1]
            /\ UNCHANGED since
       ELSE /\ req' = [req EXCEPT !.state = req.class]
            /\ stats' = IF req.class = "CannotCache"
                        THEN [stats EXCEPT !.requests_not_cacheable = @ + 1]
                        ELSE [stats EXCEPT !.requests_not_compile = @ + 1]
            /\ since' = Ending(req', "none", object)
    /\ UNCHANGED << env_recache, conf_recache, object, storageVars, callVars, bundleVars,
                    restVars >>

\* Cacheable -> Preprocessing -> Hashing -> Probing; a preprocess failure is
\* surfaced verbatim and counted in cache_errors.
Preprocess ==
    /\ req.state = "Preprocessing"
    /\ IF req.pre.status # 0
       THEN /\ req' = [req EXCEPT !.state = "Surfaced",
                                  !.response = Some(req.pre)]
            /\ stats' = [stats EXCEPT !.cache_errors = @ + 1]
            /\ since' = Ending(req', "none", object)
       ELSE /\ req' = [req EXCEPT !.state = "Probing"]
            /\ UNCHANGED << stats, since >>
    /\ UNCHANGED << env_recache, conf_recache, object, storageVars, callVars, bundleVars,
                    restVars >>

\* A probe that never finds an entry.
Lookup_NeverHit(k) == IF force_recache THEN Recache ELSE Miss

\* What the probe returns: Recache when force_recache is configured, else
\* what the storage returns.
Lookup(k) == IF force_recache THEN Recache ELSE DiskGet(cache, k)

\* Probing -> Hit | Miss
Probe ==
    /\ req.state = "Probing"
    /\ req' = [req EXCEPT !.lookup = Some(Lookup(req.key)),
                          !.state = IF Lookup(req.key).kind = "Hit"
                                    THEN "Unpacking"
                                    ELSE "Compiling"]
    /\ stats' = IF Lookup(req.key).kind = "Hit"
                THEN [stats EXCEPT !.cache_hits = @ + 1]
                ELSE IF Lookup(req.key).kind = "Recache"
                THEN [stats EXCEPT !.forced_recaches = @ + 1]
                ELSE [stats EXCEPT !.cache_misses = @ + 1]
    /\ cache' = IF force_recache THEN cache ELSE DiskTouch(cache, req.key)
    /\ UNCHANGED << env_recache, conf_recache, object, since, max_size, got,
                    written, evicted, callVars, bundleVars,
                    restVars >>

\* The response made up on a hit: exit 0, nothing on stdout or stderr.
Finished == [status |-> 0, stdout |-> "", stderr |-> ""]

\* Hit -> Unpacking -> Delivered
Unpack ==
    /\ req.state = "Unpacking"
    /\ object' = Some(req.lookup[1].bundle.id)
    /\ req' = [req EXCEPT !.state = "Delivered", !.response = Some(Finished)]
    /\ since' = Ending(req', req.key, object')
    /\ UNCHANGED << env_recache, conf_recache, stats, storageVars, callVars, bundleVars,
                    restVars >>

\* A compilation that packs and stores whatever the child's exit status.
RunCompiler_StoreAlways ==
    /\ req.state = "Compiling"
    /\ req' = [req EXCEPT !.ran = TRUE, !.state = "Storing"]
    /\ object' = Some(BundleOf(req.key).id)
    /\ UNCHANGED since
    /\ UNCHANGED << env_recache, conf_recache, stats, storageVars, callVars, bundleVars,
                    restVars >>

\* Miss -> Compiling -> Packing; a child that exits non-zero is surfaced
\* verbatim.
RunCompiler ==
    /\ req.state = "Compiling"
    /\ IF req.child.status # 0
       THEN /\ req' = [req EXCEPT !.ran = TRUE, !.state = "Surfaced",
                                  !.response = Some(req.child)]
            /\ since' = Ending(req', req.key, object)
            /\ UNCHANGED object
       ELSE /\ req' = [req EXCEPT !.ran = TRUE, !.state = "Storing"]
            /\ object' = Some(BundleOf(req.key).id)
            /\ UNCHANGED since
    /\ UNCHANGED << env_recache, conf_recache, stats, storageVars, callVars, bundleVars,
                    restVars >>

\* Packing -> Storing -> Delivered: the bundle is put, the compiler's streams
\* and exit status are forwarded.
Store ==
    /\ req.state = "Storing"
    /\ cache' = DiskPut(cache, max_size, req.key, BundleOf(req.key))
    /\ req' = [req EXCEPT !.state = "Delivered", !.put = TRUE,
                          !.response = Some(req.child)]
    /\ since' = Ending(req', req.key, object)
    /\ UNCHANGED << env_recache, conf_recache, stats, object, max_size, got,
                    written, evicted, callVars, bundleVars,
                    restVars >>

\* ZeroStats resets all counters.
ZeroStats ==
    /\ req.state \in Terminal \cup {"Idle"}
    /\ stats' = ZeroedStats
    /\ req' = NoRequest
    /\ since' = Fresh(IndexKeys(cache))
    /\ UNCHANGED << env_recache, conf_recache, object, storageVars, callVars, bundleVars,
                    restVars >>

ServerNext ==
    \/ \E class \in Classes, key \in Keys, pre, child \in ChildOutputs :
        Receive(class, key, pre, child)
    \/ Classify
    \/ Preprocess
    \/ Probe
    \/ Unpack
    \/ RunCompiler
    \/ Store
    \/ ZeroStats

SpecServer == ServerInit /\ [][ServerNext]_vars

-----------------------------------------------------------------------------
(* The cache entry: CacheRead and CacheWrite, cache.rs lines 62-128, over  *)
(* a zip container.                                                         *)

\* Objects put into one cache entry, at most.
MaxEntries == 2

\* Length of an object in bytes, at most.
MaxBytes == 2

\* The output-kind tags that name the objects of an entry.
Names == {"obj", "dwo"}

ObjectBytes == UNION {[1..n -> {0, 1}] : n \in 0..MaxBytes}

\* No mode, or rwxr-xr-x.
Modes == {None, Some(493)}

\* Deflate, as run lengths: a sequence of << byte, count >>.
RECURSIVE Deflate(_)
Deflate(bytes) ==
    IF bytes = <<>> THEN <<>>
    ELSE LET rest == Deflate(Tail(bytes))
         IN  IF rest # <<>> /\ rest[1][1] = Head(bytes)
             THEN << <<Head(bytes), rest[1][2] + 1>> >> \o Tail(rest)
             ELSE << <<Head(bytes), 1>> >> \o rest

RECURSIVE Inflate(_)
Inflate(runs) ==
    IF runs = <<>> THEN <<>>
    ELSE [i \in 1..runs[1][2] |-> runs[1][1]] \o Inflate(Tail(runs))

\* FileOptions::default()
FileOptionsDefault == [compression_method |-> "Stored", permissions |-> None]

\* FileOptions::compression_method
compression_method(opts, method) ==
    [opts EXCEPT !.compression_method = method]

\* FileOptions::unix_permissions
unix_permissions(opts, mode) == [opts EXCEPT !.permissions = Some(mode)]

\* ZipWriter::start_file: a new entry header, no data yet
start_file(zip, name, opts) ==
    Append(zip, [name |-> name, options |-> opts, data |-> <<>>])

\* io::copy(from, &mut self.zip): the data of the entry started last
copy_in(zip, from) ==
    [zip EXCEPT ![Len(zip)].data =
        IF zip[Len(zip)].options.compression_method = "Deflated"
        THEN Deflate(from)
        ELSE [i \in 1..Len(from) |-> <<from[i], 1>>]]

\* CacheWrite::new, lines 100-105
CacheWrite_new == <<>>

\* A put_object that stores every entry without a mode.
put_object_NoMode(zip, name, from, mode) ==
    copy_in(start_file(zip, name,
                       compression_method(FileOptionsDefault, "Deflated")),
            from)

\* CacheWrite::put_object, lines 109-119
put_object(zip, name, from, mode) ==
    LET opts == compression_method(FileOptionsDefault, "Deflated")
        with_mode == IF mode # None THEN unix_permissions(opts, mode[1])
                     ELSE opts
    IN  copy_in(start_file(zip, name, with_mode), from)

\* CacheWrite::finish, lines 122-127: the entries followed by the central
\* directory that names them
finish(zip) ==
    [files |-> zip, directory |-> [i \in 1..Len(zip) |-> zip[i].name]]

\* CacheRead::from, lines 69-78: ZipArchive::new reads the directory, a
\* name listed twice leading to the entry listed last
CacheRead_from(bytes) ==
    [files |-> bytes.files,
     names_map |->
        [n \in Range(bytes.directory) |->
            CHOOSE i \in 1..Len(bytes.directory) :
                /\ bytes.directory[i] = n
                /\ \A j \in (i + 1)..Len(bytes.directory) :
                    bytes.directory[j] # n]]

\* CacheRead::get_object, lines 82-90: what is written to `to` and the mode
\* returned
get_object(zip, name) ==
    IF name \notin DOMAIN zip.names_map
    THEN [kind |-> "Err",
          message |-> "Failed to read object from cache entry"]
    ELSE LET file == zip.files[zip.names_map[name]]
         IN  [kind |-> "Ok", to |-> Inflate(file.data),
              mode |-> file.options.permissions]

BundleInit ==
    /\ NoCall
    /\ NoStorage
    /\ NoServer
    /\ NoFunction
    /\ NoDaemon
    /\ objects = <<>>
    /\ writer = Some(CacheWrite_new)
    /\ blob = None
    /\ reader = None
    /\ read = None

PutObject(name, from, mode) ==
    /\ writer # None
    /\ Len(objects) < MaxEntries
    /\ writer' = Some(put_object(writer[1], name, from, mode))
    /\ objects' = Append(objects, [name |-> name, bytes |-> from,
                                   mode |-> mode])
    /\ UNCHANGED << blob, reader, read, callVars, storageVars, serverVars, restVars >>

Finish_entry ==
    /\ writer # None
    /\ blob' = Some(finish(writer[1]))
    /\ writer' = None
    /\ UNCHANGED << objects, reader, read, callVars, storageVars, serverVars, restVars >>

From ==
    /\ blob # None
    /\ reader = None
    /\ reader' = Some(CacheRead_from(blob[1]))
    /\ UNCHANGED << objects, writer, blob, read, callVars, storageVars,
                    serverVars, restVars >>

GetObject(name) ==
    /\ reader # None
    /\ read' = Some([name |-> name, result |-> get_object(reader[1], name)])
    /\ UNCHANGED << objects, writer, blob, reader, callVars, storageVars,
                    serverVars, restVars >>

BundleNext ==
    \/ \E name \in Names, from \in ObjectBytes, mode \in Modes :
        PutObject(name, from, mode)
    \/ Finish_entry
    \/ From
    \/ \E name \in Names : GetObject(name)

SpecBundle == BundleInit /\ [][BundleNext]_vars

-----------------------------------------------------------------------------
(* C15: failures of the preprocessor and of the compiler.                  *)

\* The preprocess step of the request has run and failed.
PreprocessFailed ==
    /\ req.state \notin {"Idle", "Received", "Preprocessing"}
    /\ req.class = "Cacheable"
    /\ req.pre.status # 0

\* The compile child of the request has run and exited non-zero.
CompileFailed ==
    /\ req.state # "Idle"
    /\ req.ran
    /\ req.child.status # 0

\* C15: if the preprocess step of a compile request fails or its compile
\* child exits non-zero, nothing is put to storage for the request, the
\* request ends in Surfaced, and the failed child's stdout, stderr and exit
\* status are the response, unchanged; a preprocess failure also adds one to
\* cache_errors.
C15_FailureSurfaced ==
    /\ PreprocessFailed \/ CompileFailed =>
        /\ ~req.put
        /\ cache = req.before.cache
        /\ req.state = "Surfaced"
        /\ req.response = Some(IF PreprocessFailed THEN req.pre ELSE req.child)
    /\ PreprocessFailed => stats.cache_errors = req.before.cache_errors + 1
    /\ ~PreprocessFailed /\ req.state # "Idle" =>
        stats.cache_errors = req.before.cache_errors

\* One request failed in the compiler after a miss with another key's entry
\* in the cache, after an earlier one had failed in the preprocessor.
C15_Witness ==
    /\ CompileFailed
    /\ req.state = "Surfaced"
    /\ req.lookup = Some(Miss)
    /\ cache # <<>>
    /\ stats.cache_errors = 1

-----------------------------------------------------------------------------
(* C16: the counters after a run of equal requests.                        *)

\* Since the counters were zero, one or more compile requests were made,
\* each after the one before had ended, all cacheable and all with
\* fingerprint k, and the last has ended.
SameFingerprint(k) ==
    /\ req.state \in Terminal
    /\ since.n >= 1
    /\ since.cacheable
    /\ since.fingerprints = {k}

\* The cache can hold the entry of fingerprint k.
LargeEnough(k) == BundleOf(k).size <= max_size

\* The counters and the object file as the claim has them after n requests.
OneMissThenHits(n) ==
    /\ stats.compile_requests = n
    /\ stats.requests_executed = n
    /\ stats.cache_misses = 1
    /\ stats.cache_hits = n - 1
    /\ since.objects

-----------------------------------------------------------------------------
(* C17: completed puts and the gets that follow them.                      *)

\* The last get was of a key that has been put, with no put since.
GotWritten == got # None /\ got[1].key \in DOMAIN written

\* The claim as stated: once a put of a key has completed, every get of the
\* key that follows returns a hit with the bundle put last, whatever the
\* maximum size.
C17_Original ==
    GotWritten => got[1].result = Hit(written[got[1].key])

\* C17: once a put of a key has completed, a get of the key that follows
\* returns a hit with the bundle put last for as long as the entry has
\* not been evicted, and a miss once it has been.
C17_PutThenGet ==
    GotWritten =>
        got[1].result = IF got[1].key \in evicted
                        THEN Miss
                        ELSE Hit(written[got[1].key])

\* A key was put twice with different bundles and is read back as the
\* second, while another key put in between has been evicted.
C17_Witness ==
    /\ GotWritten
    /\ got[1].result = Hit(written[got[1].key])
    /\ got[1].result.bundle.id = "v2"
    /\ evicted # {}
    /\ Len(cache) = 1

-----------------------------------------------------------------------------
(* C18: the bound on the size of the disk cache.                           *)

\* C18: after any sequence of puts the current size is at most the maximum
\* size, also when one bundle alone is larger; with a maximum of zero every
\* put is evicted at once, every get is a miss and the current size is zero.
C18_SizeBound ==
    /\ current_size <= max_size
    /\ max_size = 0 =>
        /\ cache = <<>>
        /\ current_size = 0
        /\ evicted = DOMAIN written
        /\ got # None => got[1].result = Miss

\* A bundle larger than a non-zero maximum was put and evicted at once,
\* the entry already there with it.
C18_Witness ==
    /\ max_size > 0
    /\ cache = <<>>
    /\ got # None
    /\ \E k \in evicted : written[k].size > max_size
    /\ \E k \in evicted : written[k].size <= max_size

-----------------------------------------------------------------------------
(* C19: a cache entry read back.                                           *)

\* The names given to put_object are pairwise distinct.
DistinctNames ==
    \A i, j \in 1..Len(objects) : objects[i].name = objects[j].name => i = j

-----------------------------------------------------------------------------
(* C20: force-recache.                                                     *)

\* SCCACHE_RECACHE is set to a value other than 0, or force_recache is true
\* in the configuration file and the variable is not set.
RecacheConfigured ==
    \/ /\ env_recache.kind # "NotPresent"
       /\ env_recache # [kind |-> "Unicode", value |-> "0"]
    \/ /\ env_recache.kind = "NotPresent"
       /\ conf_recache = [kind |-> "Boolean", bool |-> TRUE]

\* The cacheable requests that have been probed since the counters were
\* zero.
Probed ==
    stats.requests_executed - stats.cache_errors
        - (IF req.state \in {"Preprocessing", "Probing"} THEN 1 ELSE 0)

\* C20: when force-recache is configured, every cacheable compile request is
\* treated as a miss at the probe step even when an entry for its
\* fingerprint exists, runs the compiler, writes the result to storage when
\* the compiler succeeds, and is counted in forced_recaches and not in
\* cache_hits.
C20_ForceRecache ==
    RecacheConfigured =>
        /\ stats.cache_hits = 0
        /\ stats.forced_recaches = Probed
        /\ req.state # "Idle" /\ req.lookup # None =>
            /\ req.lookup = Some(Recache)
            /\ req.state \in {"Compiling", "Storing", "Delivered", "Surfaced"}
            /\ req.state # "Compiling" => req.ran
            /\ req.state = "Delivered" => /\ req.put
                                          /\ req.key \in IndexKeys(cache)
                                             \/ ~LargeEnough(req.key)

-----------------------------------------------------------------------------
(* Response files that refer to themselves or to each other.               *)

\* The tokens of a command line that may name such a file.
CyclicTokens ==
    { Tok.loop, Tok.ping, Tok.rsp, Tok.out, Lit.c, Tok.foo_c }

CyclicArgumentLists == UNION { [1..n -> CyclicTokens] : n \in 0..MaxArgs }

CyclicInit ==
    /\ arguments \in CyclicArgumentLists
    /\ stack = Reverse(arguments)
    /\ output_arg = None
    /\ input_arg = None
    /\ dep_target = None
    /\ common_args = <<>>
    /\ preprocessor_args = <<>>
    /\ compilation = FALSE
    /\ split_dwarf = FALSE
    /\ need_explicit_dep_target = FALSE
    /\ force_input_type = None
    /\ arg = None
    /\ pc = "scan"
    /\ result = NoResult
    /\ compiled = None
    /\ NoStorage
    /\ NoServer
    /\ NoBundle
    /\ NoFunction
    /\ NoDaemon

\* The turns of the loop that these tokens and the files they name lead to.
CyclicNext ==
    \/ Expand
    \/ Arg_c
    \/ Arg_o
    \/ Arg_input
    \/ Val_o
    \/ EndOfArgs
    \/ Compile

\* The thread that runs the call is never held up: a turn of the loop that
\* can be taken is taken.
SpecCyclic == CyclicInit /\ [][CyclicNext]_vars /\ WF_vars(CyclicNext)

-----------------------------------------------------------------------------
(* C28: termination of response-file expansion.                            *)

\* C28: response-file expansion terminates, and with it the call, for every
\* finite set of response files, also when the files refer to themselves or
\* to each other.
C28_ExpansionTerminates == <>Ended

(***************************************************************************)
(* SplitArgs (env_splitter.rs): an iterator that cuts a byte string into   *)
(* shell-like arguments.  fn_args holds the bytes and allow_escape,        *)
(* fn_state holds self.pos, fn_ret the items next() has returned so far.   *)
(***************************************************************************)

MaxInput == 4

Bytes == { "'", "\"", "\\", "a", " ", "\r" }

ByteStrings == UNION { [1..n -> Bytes] : n \in 0..MaxInput }

\* SplitArgs::new
SplitArgs_new(args, allow_escape) ==
    [args |-> args, pos |-> 0, allow_escape |-> allow_escape]

\* the take_while of next(): the first position at or after pos that holds
\* no blank
RECURSIVE SkipBlanks(_, _)
SkipBlanks(args, pos) ==
    IF pos < Len(args) /\ args[pos + 1] \in { " ", "\t", "\n", "\r" }
    THEN SkipBlanks(args, pos + 1)
    ELSE pos

\* one turn of the match of next(): the state and the argument after byte b;
\* brk says that the loop is left
Byte(state, b, argv, allow_escape) ==
    CASE state = "Normal" /\ b \in { " ", "\t", "\n" } ->
            [state |-> state, argv |-> argv, brk |-> TRUE]
      [] state = "Normal" /\ b = "'" ->
            [state |-> "SingleQ", argv |-> argv, brk |-> FALSE]
      [] state = "Normal" /\ b = "\"" ->
            [state |-> "DoubleQ", argv |-> argv, brk |-> FALSE]
      [] state = "Normal" /\ b = "\\" /\ allow_escape ->
            [state |-> "Escape", argv |-> argv, brk |-> FALSE]
      [] state = "Normal" /\ ~(b \in { " ", "\t", "\n", "'", "\"" })
                          /\ ~(b = "\\" /\ allow_escape) ->
            [state |-> "Normal", argv |-> Append(argv, b), brk |-> FALSE]
      [] state = "Escape" ->
            [state |-> "Normal", argv |-> Append(argv, b), brk |-> FALSE]
      [] state = "SingleQ" /\ b = "'" ->
            [state |-> "Normal", argv |-> argv, brk |-> FALSE]
      [] state = "SingleQ" /\ b # "'" ->
            [state |-> "SingleQ", argv |-> Append(argv, b), brk |-> FALSE]
      [] state = "DoubleQ" /\ b = "\"" ->
            [state |-> "Normal", argv |-> argv, brk |-> FALSE]
      [] state = "DoubleQ" /\ b = "\\" /\ allow_escape ->
            [state |-> "DQEscape", argv |-> argv, brk |-> FALSE]
      [] state = "DoubleQ" /\ b # "\"" /\ ~(b = "\\" /\ allow_escape) ->
            [state |-> "DoubleQ", argv |-> Append(argv, b), brk |-> FALSE]
      [] state = "DQEscape" /\ b \in { "\n", "\\", "\"" } ->
            [state |-> "DoubleQ", argv |-> Append(argv, b), brk |-> FALSE]
      [] state = "DQEscape" /\ ~(b \in { "\n", "\\", "\"" }) ->
            [state |-> "DoubleQ", argv |-> Append(Append(argv, "\\"), b),
             brk |-> FALSE]

\* the loop of next(): reads bytes from pos on until a break or the end of
\* the bytes, where a pending backslash is flushed
RECURSIVE ScanArg(_, _, _, _, _)
ScanArg(args, pos, state, argv, allow_escape) ==
    IF pos = Len(args)
    THEN [pos |-> pos,
          argv |-> IF state \in { "Escape", "DQEscape" }
                  THEN Append(argv, "\\") ELSE argv]
    ELSE LET s == Byte(state, args[pos + 1], argv, allow_escape)
         IN  IF s.brk
             THEN [pos |-> pos + 1, argv |-> argv]
             ELSE ScanArg(args, pos + 1, s.state, s.argv, allow_escape)

\* a mistaken strip that leaves the argument as it is
StripCR_Keep(argv) == argv

\* "strip trailing '\r' in case of '\r\n'"
StripCR(argv) ==
    IF Len(argv) > 0 /\ argv[Len(argv)] = "\r"
    THEN SubSeq(argv, 1, Len(argv) - 1)
    ELSE argv

\* SplitArgs::next on the iterator it: the item returned and the new pos
next(it) ==
    LET start == SkipBlanks(it.args, it.pos)
    IN  IF start = Len(it.args)
        THEN [item |-> None, pos |-> start]
        ELSE LET r == ScanArg(it.args, start, "Normal", <<>>, it.allow_escape)
             IN  [item |-> Some(StripCR(r.argv)), pos |-> r.pos]

\* the iterator is exhausted: its last item was None
Exhausted == fn_ret # <<>> /\ fn_ret[Len(fn_ret)] = None

SplitInit ==
    /\ \E args \in ByteStrings, allow_escape \in BOOLEAN :
          /\ fn_args = [args |-> args, allow_escape |-> allow_escape]
          /\ fn_state = SplitArgs_new(args, allow_escape).pos
    /\ fn_ret = <<>>
    /\ NoCall
    /\ NoStorage
    /\ NoServer
    /\ NoBundle
    /\ NoDaemon

\* the caller takes the next item
SplitArgs_next ==
    /\ ~Exhausted
    /\ LET r == next([args |-> fn_args.args, pos |-> fn_state,
                      allow_escape |-> fn_args.allow_escape])
       IN  /\ fn_ret' = Append(fn_ret, r.item)
           /\ fn_state' = r.pos
    /\ UNCHANGED << fn_args, daemonVars, callVars, storageVars, serverVars,
                    bundleVars >>

SplitNext == SplitArgs_next

SpecSplitArgs == SplitInit /\ [][SplitNext]_vars

\* The quoting state after the first n bytes of the input.
RECURSIVE QuoteState(_, _, _)
QuoteState(args, allow_escape, n) ==
    IF n = 0 THEN "Normal"
    ELSE LET s == QuoteState(args, allow_escape, n - 1)
             b == args[n]
         IN  CASE s = "Normal" ->
                    IF b = "'" THEN "SingleQ"
                    ELSE IF b = "\"" THEN "DoubleQ"
                    ELSE IF b = "\\" /\ allow_escape THEN "Escape"
                    ELSE "Normal"
               [] s = "Escape" -> "Normal"
               [] s = "SingleQ" -> IF b = "'" THEN "Normal" ELSE "SingleQ"
               [] s = "DoubleQ" ->
                    IF b = "\"" THEN "Normal"
                    ELSE IF b = "\\" /\ allow_escape THEN "DQEscape"
                    ELSE "DoubleQ"
               [] s = "DQEscape" -> "DoubleQ"

\* The runs of bytes that stand between an opening single quote and the
\* single quote that closes it.
SingleQuoted(args, allow_escape) ==
    { SubSeq(args, i + 1, j - 1) :
        <<i, j>> \in { p \in (1..Len(args)) \X (1..Len(args)) :
            /\ p[1] < p[2]
            /\ args[p[1]] = "'"
            /\ QuoteState(args, allow_escape, p[1] - 1) = "Normal"
            /\ args[p[2]] = "'"
            /\ \A k \in (p[1] + 1)..(p[2] - 1) : args[k] # "'" } }

\* q occurs in tok as one unbroken run
OccursIn(q, tok) ==
    \E k \in 0..(Len(tok) - Len(q)) : SubSeq(tok, k + 1, k + Len(q)) = q

\* C30: once SplitArgs is exhausted, every run of bytes that stood between
\* a pair of single quotes is found, unchanged and unbroken, in one of the
\* tokens it yielded.
C30_QuotedBytesKept ==
    Exhausted =>
        \A q \in SingleQuoted(fn_args.args, fn_args.allow_escape) :
            \E n \in 1..Len(fn_ret) :
                fn_ret[n] # None /\ OccursIn(q, fn_ret[n][1])


(***************************************************************************)
(* parse_size (config.rs).  A usize has 64 bits, more than an integer of   *)
(* the model checker holds, so a number is a sequence of base-1024 digits, *)
(* least significant first, without leading zero digits; zero is <<>>.     *)
(* fn_args holds the string and whether the build traps on overflow,       *)
(* fn_ret what the call returned.                                          *)
(***************************************************************************)

MaxSizeLen == 3

Base == 1024

DecimalDigits == << "0", "1", "2", "3", "4", "5", "6", "7", "8", "9" >>

\* a character of the class \d that is not an ASCII digit
ArabicIndicThree == "U+0663"

\* the class \d of the regex crate: every Unicode decimal digit
IsRegexDigit(c) == c \in Range(DecimalDigits) \cup { ArabicIndicThree }

DigitValue(c) == (CHOOSE d \in 1..10 : DecimalDigits[d] = c) - 1

\* drops the zero digits at the most significant end
RECURSIVE Normal(_)
Normal(n) ==
    IF n # <<>> /\ n[Len(n)] = 0 THEN Normal(SubSeq(n, 1, Len(n) - 1)) ELSE n

\* n * m + carry, for small m and carry
RECURSIVE MulAdd(_, _, _)
MulAdd(n, m, carry) ==
    IF n = <<>>
    THEN IF carry = 0 THEN <<>> ELSE << carry >>
    ELSE LET v == Head(n) * m + carry
         IN  << v % Base >> \o MulAdd(Tail(n), m, v \div Base)

\* n < 2^64 = 16 * 1024^6
FitsUsize(n) == Len(n) < 7 \/ (Len(n) = 7 /\ n[7] < 16)

\* n mod 2^64
WrapUsize(n) ==
    IF Len(n) < 7 THEN n
    ELSE Normal(SubSeq(n, 1, 6) \o << n[7] % 16 >>)

\* n * 1024^k, as a number of any size
RECURSIVE Times1024(_, _)
Times1024(n, k) ==
    IF k = 0 \/ n = <<>> THEN n ELSE Times1024(<< 0 >> \o n, k - 1)

\* usize::from_str: the digits read from the left, an error on a character
\* that is no ASCII digit, on the empty string and on overflow
RECURSIVE FromDigits(_, _)
FromDigits(s, acc) ==
    IF s = <<>> THEN Some(acc)
    ELSE IF Head(s) \notin Range(DecimalDigits) THEN None
    ELSE LET n == Normal(MulAdd(acc, 10, DigitValue(Head(s))))
         IN  IF FitsUsize(n) THEN FromDigits(Tail(s), n) ELSE None

usize_from_str(s) == IF s = <<>> THEN None ELSE FromDigits(s, <<>>)

\* re.captures for ^(\d+)([KMGT])$
captures(val) ==
    IF /\ Len(val) >= 2
       /\ \A k \in 1..(Len(val) - 1) : IsRegexDigit(val[k])
       /\ val[Len(val)] \in { "K", "M", "G", "T" }
    THEN Some([size |-> SubSeq(val, 1, Len(val) - 1), suffix |-> val[Len(val)]])
    ELSE None

\* the power of 1024 a suffix stands for
SuffixPower(suffix) ==
    CASE suffix = "K" -> 1
      [] suffix = "M" -> 2
      [] suffix = "G" -> 3
      [] suffix = "T" -> 4

\* size * 1024^k in usize arithmetic: a build with overflow checks panics
\* when the product does not fit, a build without them wraps
usize_mul(size, k, overflow_checks) ==
    LET product == Times1024(size, k)
    IN  IF FitsUsize(product) THEN [kind |-> "Some", value |-> product]
        ELSE IF overflow_checks THEN [kind |-> "panic"]
        ELSE [kind |-> "Some", value |-> WrapUsize(product)]

parse_size(val, overflow_checks) ==
    LET caps == captures(val)
    IN  IF caps = None THEN [kind |-> "None"]
        ELSE LET size == usize_from_str(caps[1].size)
             IN  IF size = None THEN [kind |-> "None"]
                 ELSE usize_mul(size[1], SuffixPower(caps[1].suffix),
                                overflow_checks)

\* numerals around the edges of usize
Numerals ==
    { <<>>,
      <<"0">>,
      <<"2">>,
      <<"1", "0">>,
      <<"1", "0", "0">>,
      <<"1", "6", "7", "7", "7", "2", "1", "5">>,
      <<"1", "6", "7", "7", "7", "2", "1", "6">>,
      <<"1", "8", "4", "4", "6", "7", "4", "4", "0", "7", "3", "7", "0", "9", "5", "5", "1", "6", "1", "5">>,
      <<"1", "8", "4", "4", "6", "7", "4", "4", "0", "7", "3", "7", "0", "9", "5", "5", "1", "6", "1", "6">>,
      << ArabicIndicThree >> }

SizeTails ==
    { <<>>, << "K" >>, << "M" >>, << "G" >>, << "T" >>, << "k" >>,
      << "K", "B" >>, << "K", "\n" >>, << " ", "K" >> }

SizeHeads == { <<>>, << " " >>, << "-" >>, << "+" >> }

\* every short string over a small alphabet, and the numerals with something
\* before and after them
SizeStrings ==
    UNION { [1..n -> { "1", "9", "K", "T", "x" }] : n \in 0..MaxSizeLen }
    \cup { h \o n \o tl : h \in SizeHeads, n \in Numerals, tl \in SizeTails }

ParseSizeInit ==
    /\ \E val \in SizeStrings, overflow_checks \in BOOLEAN :
          fn_args = [val |-> val, overflow_checks |-> overflow_checks]
    /\ fn_state = None
    /\ fn_ret = None
    /\ NoCall
    /\ NoStorage
    /\ NoServer
    /\ NoBundle
    /\ NoDaemon

ParseSize ==
    /\ fn_ret = None
    /\ fn_ret' = Some(parse_size(fn_args.val, fn_args.overflow_checks))
    /\ UNCHANGED << fn_args, fn_state, daemonVars, callVars, storageVars,
                    serverVars, bundleVars >>

ParseSizeNext == ParseSize

SpecParseSize == ParseSizeInit /\ [][ParseSizeNext]_vars

\* The string is one or more decimal digits followed by one of K, M, G, T.
IsSizeString(val) ==
    /\ Len(val) >= 2
    /\ \A k \in 1..(Len(val) - 1) : val[k] \in Range(DecimalDigits)
    /\ val[Len(val)] \in { "K", "M", "G", "T" }

\* The number a string of decimal digits denotes.
RECURSIVE Decimal(_)
Decimal(s) ==
    IF s = <<>> THEN <<>>
    ELSE Normal(MulAdd(Decimal(SubSeq(s, 1, Len(s) - 1)), 10,
                       DigitValue(s[Len(s)])))

\* C27: parse_size returns a value exactly for the strings of one or more
\* decimal digits followed by one suffix K, M, G or T, the value being the
\* number times 1024, 1024^2, 1024^3 or 1024^4; for every other string it
\* returns none.
C27_ParseSize ==
    fn_ret # None =>
        LET val == fn_args.val
        IN  IF IsSizeString(val)
            THEN fn_ret[1] =
                    [kind |-> "Some",
                     value |-> Times1024(Decimal(SubSeq(val, 1, Len(val) - 1)),
                                         SuffixPower(val[Len(val)]))]
            ELSE fn_ret[1] = [kind |-> "None"]


(***************************************************************************)
(* Config::create (config.rs) and storage_from_environment (cache.rs).     *)
(* fn_args holds the environment, the parsed configuration file and the    *)
(* build's features; fn_state holds CONFIG once it is created, fn_ret the  *)
(* storage chosen from it.  A string that is put together from pieces is   *)
(* the sequence of its pieces; a size string is a sequence of characters.  *)
(***************************************************************************)

NotPresent == [kind |-> "NotPresent"]

NotUnicode == [kind |-> "NotUnicode"]

Unicode(v) == [kind |-> "Unicode", value |-> v]

Absent == [kind |-> "Absent"]

TomlString(s) == [kind |-> "String", str |-> s]

TomlBoolean(b) == [kind |-> "Boolean", bool |-> b]

\* 10 * 1024 * 1024 * 1024
TEN_GIGS == << 0, 0, 0, 10 >>

\* default_disk_cache_dir()
default_disk_cache_dir == "~/.cache/sccache"

\* no variable is set
EmptyEnv ==
    [SCCACHE_REDIS |-> NotPresent, SCCACHE_BUCKET |-> NotPresent,
     SCCACHE_ENDPOINT |-> NotPresent, SCCACHE_REGION |-> NotPresent,
     SCCACHE_DIR |-> NotPresent, SCCACHE_SIZE |-> NotPresent,
     SCCACHE_NO_DAEMON |-> NotPresent, SCCACHE_RECACHE |-> NotPresent]

\* "".parse::<toml::Value>(): no key is present
EmptyConf ==
    [cache_type |-> Absent, cache_dir |-> Absent, redis_url |-> Absent,
     s3_bucket |-> Absent, s3_endpoint |-> Absent, cache_size |-> Absent,
     no_daemon |-> Absent, force_recache |-> Absent,
     msvc_force_z7 |-> Absent, compiler_dir |-> Absent]

\* the settings that choose the kind of cache and its place
CacheInputs ==
    { [env |-> [EmptyEnv EXCEPT !.SCCACHE_REDIS = redis,
                                !.SCCACHE_BUCKET = bucket,
                                !.SCCACHE_ENDPOINT = endpoint,
                                !.SCCACHE_REGION = region,
                                !.SCCACHE_DIR = dir],
       conf_data |-> [EmptyConf EXCEPT !.cache_type = ctype,
                                       !.cache_dir = cdir,
                                       !.redis_url = curl,
                                       !.s3_bucket = cbucket,
                                       !.s3_endpoint = cendpoint],
       overflow_checks |-> TRUE] :
        redis \in { NotPresent, Unicode("redis://r") },
        bucket \in { NotPresent, Unicode("bkt") },
        endpoint \in { NotPresent, Unicode("host") },
        region \in { NotPresent, Unicode("us-east-1"), Unicode("us-west-2") },
        dir \in { NotPresent, Unicode("/env") },
        ctype \in { Absent } \cup
                  { TomlString(s) : s \in { "disk", "redis", "s3", "memcached" } },
        cdir \in { Absent, TomlString("/file") },
        curl \in { Absent, TomlString("redis://f") },
        cbucket \in { Absent, TomlString("fbkt") },
        cendpoint \in { Absent, TomlString("fhost") } }

\* the settings of the disk cache
DiskInputs ==
    { [env |-> [EmptyEnv EXCEPT !.SCCACHE_DIR = dir, !.SCCACHE_SIZE = size],
       conf_data |-> [EmptyConf EXCEPT !.cache_type = ctype,
                                       !.cache_dir = cdir,
                                       !.redis_url = TomlString("redis://f"),
                                       !.cache_size = csize],
       overflow_checks |-> checks] :
        dir \in { NotPresent, Unicode("/env") },
        size \in { NotPresent, NotUnicode, Unicode(<< "2", "K" >>),
                   Unicode(<< "x" >>),
                   Unicode(<< "1", "6", "7", "7", "7", "2", "1", "6", "T" >>) },
        ctype \in { Absent, TomlString("disk"), TomlString("redis") },
        cdir \in { Absent, TomlString("/file") },
        csize \in { Absent, TomlString(<< "1", "M" >>), TomlBoolean(TRUE) },
        checks \in BOOLEAN }

\* the switches
SwitchInputs ==
    { [env |-> [EmptyEnv EXCEPT !.SCCACHE_NO_DAEMON = no_daemon,
                                !.SCCACHE_RECACHE = recache],
       conf_data |-> [EmptyConf EXCEPT !.no_daemon = cno_daemon,
                                       !.force_recache = crecache,
                                       !.msvc_force_z7 = z7,
                                       !.compiler_dir = cdir],
       overflow_checks |-> TRUE] :
        no_daemon \in EnvValues, recache \in EnvValues,
        cno_daemon \in ConfValues, crecache \in ConfValues,
        z7 \in { Absent, TomlBoolean(TRUE) },
        cdir \in { Absent, TomlString("/cc"), TomlString("/cc/") } }

\* string_from_config, lines 118-120
string_from_config(c) == IF c.kind = "String" THEN Some(c.str) ELSE None

\* string_from_env, lines 130-132
string_from_env(e) == env_var_ok(e)

\* usize_from_env, lines 138-140; usize_from_config, lines 122-124:
\* parse_size of the string, if there is one
usize_from(s, overflow_checks) ==
    IF s = None THEN [kind |-> "None"] ELSE parse_size(s[1], overflow_checks)

\* lines 151-174: the cache type the file asks for
cache_type_from_config(conf_data) ==
    LET t == string_from_config(conf_data.cache_type)
    IN  IF t = None THEN [kind |-> "Invalid"]
        ELSE IF t[1] = "disk"
        THEN [kind |-> "Disk",
              cache_dir |-> UnwrapOr(string_from_config(conf_data.cache_dir),
                                     default_disk_cache_dir),
              cache_size |-> TEN_GIGS]
        ELSE IF t[1] = "redis"
        THEN IF string_from_config(conf_data.redis_url) = None
             THEN [kind |-> "panic", msg |-> "missing redis_url for redis cache"]
             ELSE [kind |-> "Redis",
                   url |-> string_from_config(conf_data.redis_url)[1]]
        ELSE IF t[1] = "s3"
        THEN IF string_from_config(conf_data.s3_bucket) = None
             THEN [kind |-> "panic", msg |-> "missing s3_bucket in config"]
             ELSE IF string_from_config(conf_data.s3_endpoint) = None
             THEN [kind |-> "panic", msg |-> "missing s3_endpoint in config"]
             ELSE [kind |-> "S3",
                   bucket |-> string_from_config(conf_data.s3_bucket)[1],
                   endpoint |-> << string_from_config(conf_data.s3_endpoint)[1] >>]
        ELSE [kind |-> "panic",
              msg |-> "cache_type must be 'disk', 'redis', or 's3'"]

\* lines 186-193: the endpoint of the bucket
s3_endpoint_from_env(env, bucket) ==
    IF env_var_ok(env.SCCACHE_ENDPOINT) # None
    THEN << env_var_ok(env.SCCACHE_ENDPOINT)[1], "/", bucket >>
    ELSE IF /\ env_var_ok(env.SCCACHE_REGION) # None
            /\ env_var_ok(env.SCCACHE_REGION)[1] # "us-east-1"
    THEN << bucket, ".s3-", env_var_ok(env.SCCACHE_REGION)[1], ".amazonaws.com" >>
    ELSE << bucket, ".s3.amazonaws.com" >>

\* lines 178-205: the legacy variables, given the cache type from the file
cache_type_from_env(env, from_config) ==
    IF env_var_ok(env.SCCACHE_REDIS) # None
    THEN [kind |-> "Redis", url |-> string_from_env(env.SCCACHE_REDIS)[1]]
    ELSE IF \/ env_var_ok(env.SCCACHE_BUCKET) # None
            \/ env_var_ok(env.SCCACHE_ENDPOINT) # None
            \/ env_var_ok(env.SCCACHE_REGION) # None
    THEN IF env_var_ok(env.SCCACHE_BUCKET) # None
         THEN [kind |-> "S3",
               bucket |-> env_var_ok(env.SCCACHE_BUCKET)[1],
               endpoint |-> s3_endpoint_from_env(
                                env, env_var_ok(env.SCCACHE_BUCKET)[1])]
         ELSE from_config
    ELSE IF from_config = [kind |-> "Invalid"]
    THEN [kind |-> "Disk",
          cache_dir |-> UnwrapOr(string_from_env(env.SCCACHE_DIR),
                                 default_disk_cache_dir),
          cache_size |-> TEN_GIGS]
    ELSE from_config

\* lines 210-212: the size of a disk cache
cache_size_of(env, conf_data, overflow_checks) ==
    LET from_env == usize_from(env_var_ok(env.SCCACHE_SIZE), overflow_checks)
        from_conf == usize_from(string_from_config(conf_data.cache_size),
                                overflow_checks)
    IN  IF from_env.kind # "None" THEN from_env
        ELSE IF from_conf.kind # "None" THEN from_conf
        ELSE [kind |-> "Some", value |-> TEN_GIGS]

\* lines 221-227: either test of line 222 fails for every string, so a dot
\* is always added
compiler_dir_of(conf_data) ==
    IF string_from_config(conf_data.compiler_dir) = None THEN None
    ELSE Some(<< string_from_config(conf_data.compiler_dir)[1], "." >>)

\* Config::create: the configuration, or the panic that ends it
Config_create(env, conf_data, overflow_checks) ==
    LET from_config == cache_type_from_config(conf_data)
        ctype == cache_type_from_env(env, from_config)
        size == cache_size_of(env, conf_data, overflow_checks)
    IN  IF from_config.kind = "panic" THEN from_config
        ELSE IF ctype.kind = "Disk" /\ size.kind = "panic"
        THEN [kind |-> "panic", msg |-> "attempt to multiply with overflow"]
        ELSE [kind |-> "Ok",
              conf |->
                [cache_type |-> IF ctype.kind = "Disk"
                                THEN [ctype EXCEPT !.cache_size = size.value]
                                ELSE ctype,
                 no_daemon |->
                    UnwrapOr(Or(bool_from_env(env.SCCACHE_NO_DAEMON),
                                bool_from_config(conf_data.no_daemon)), FALSE),
                 force_recache |->
                    UnwrapOr(Or(bool_from_env(env.SCCACHE_RECACHE),
                                bool_from_config(conf_data.force_recache)), FALSE),
                 msvc_force_z7 |->
                    UnwrapOr(bool_from_config(conf_data.msvc_force_z7), FALSE),
                 compiler_dir |-> compiler_dir_of(conf_data)]]

\* storage_from_environment: the backend for the configuration conf, in a
\* build with or without a feature, the backend's creation succeeding or not
storage_from_environment(conf, feature, created) ==
    CASE conf.cache_type.kind = "S3" ->
            IF feature /\ created
            THEN [kind |-> "S3Cache", endpoint |-> conf.cache_type.endpoint]
            ELSE [kind |-> "DiskCache", dir |-> default_disk_cache_dir,
                  size |-> TEN_GIGS]
      [] conf.cache_type.kind = "Redis" ->
            IF feature /\ created
            THEN [kind |-> "RedisCache", url |-> conf.cache_type.url]
            ELSE [kind |-> "DiskCache", dir |-> default_disk_cache_dir,
                  size |-> TEN_GIGS]
      [] conf.cache_type.kind = "Disk" ->
            [kind |-> "DiskCache", dir |-> conf.cache_type.cache_dir,
             size |-> conf.cache_type.cache_size]
      [] conf.cache_type.kind = "Invalid" ->
            [kind |-> "panic",
             msg |-> "Somehow got here with uninitialized CONFIG!"]

ConfigInit ==
    /\ fn_args \in CacheInputs \cup DiskInputs \cup SwitchInputs
    /\ fn_state = None
    /\ fn_ret = None
    /\ NoCall
    /\ NoStorage
    /\ NoServer
    /\ NoBundle
    /\ NoDaemon

\* CONFIG is first used: lazy_static runs Config::create
CreateConfig ==
    /\ fn_state = None
    /\ fn_state' = Some(Config_create(fn_args.env, fn_args.conf_data,
                                      fn_args.overflow_checks))
    /\ UNCHANGED << fn_args, fn_ret, daemonVars, callVars, storageVars,
                    serverVars, bundleVars >>

\* the daemon asks for its storage
StorageFromEnvironment ==
    /\ fn_state # None
    /\ fn_state[1].kind = "Ok"
    /\ fn_ret = None
    /\ \E feature \in BOOLEAN, created \in BOOLEAN :
          fn_ret' = Some(storage_from_environment(fn_state[1].conf, feature,
                                                  created))
    /\ UNCHANGED << fn_args, fn_state, daemonVars, callVars, storageVars,
                    serverVars, bundleVars >>

ConfigNext ==
    \/ CreateConfig
    \/ StorageFromEnvironment

SpecConfig == ConfigInit /\ [][ConfigNext]_vars

\* Config::create has returned a configuration.
Configured == fn_state # None /\ fn_state[1].kind = "Ok"

\* The value of a setting by the rule "environment, else file, else
\* default", where the rule is plain: from_env and from_file are the values
\* read from the environment variable and from the file's key.
ByPrecedence(e, from_env, c, from_file, default) ==
    IF e.kind = "Unicode" /\ from_env # None THEN from_env
    ELSE IF e.kind = "NotPresent" /\ from_file # None THEN from_file
    ELSE IF e.kind = "NotPresent" /\ c.kind = "Absent" THEN Some(default)
    ELSE None

\* what usize_from gives, as an option
SizeOption(r) == IF r.kind = "Some" THEN Some(r.value) ELSE None

\* C24: the disk cache directory, the cache size, no_daemon and
\* force_recache each have the value of their environment variable when it
\* is set, otherwise the value of their key in the file, otherwise the
\* default.
C24_EnvOverFileOverDefault ==
    Configured =>
        LET env == fn_args.env
            conf_data == fn_args.conf_data
            conf == fn_state[1].conf
            dir == ByPrecedence(env.SCCACHE_DIR, env_var_ok(env.SCCACHE_DIR),
                                conf_data.cache_dir,
                                string_from_config(conf_data.cache_dir),
                                default_disk_cache_dir)
            size == ByPrecedence(
                        env.SCCACHE_SIZE,
                        SizeOption(usize_from(env_var_ok(env.SCCACHE_SIZE), FALSE)),
                        conf_data.cache_size,
                        SizeOption(usize_from(
                            string_from_config(conf_data.cache_size), FALSE)),
                        TEN_GIGS)
            no_daemon == ByPrecedence(env.SCCACHE_NO_DAEMON,
                                      bool_from_env(env.SCCACHE_NO_DAEMON),
                                      conf_data.no_daemon,
                                      bool_from_config(conf_data.no_daemon),
                                      FALSE)
            recache == ByPrecedence(env.SCCACHE_RECACHE,
                                    bool_from_env(env.SCCACHE_RECACHE),
                                    conf_data.force_recache,
                                    bool_from_config(conf_data.force_recache),
                                    FALSE)
        IN  /\ (conf.cache_type.kind = "Disk" /\ dir # None)
                    => conf.cache_type.cache_dir = dir[1]
            /\ (conf.cache_type.kind = "Disk" /\ size # None)
                    => conf.cache_type.cache_size = size[1]
            /\ no_daemon # None => conf.no_daemon = no_daemon[1]
            /\ recache # None => conf.force_recache = recache[1]

\* C29: a configuration Config::create returns never has the cache type
\* Invalid, and storage_from_environment never ends in its panic.
C29_NeverInvalid ==
    /\ Configured => fn_state[1].conf.cache_type.kind # "Invalid"
    /\ fn_ret # None => fn_ret[1].kind # "panic"


(***************************************************************************)
(* cmdline::parse (cmdline.rs).  fn_args holds what the process is         *)
(* started with: its arguments, SCCACHE_START_SERVER, the path of the      *)
(* running executable, PATH, CONFIG.compiler_dir and, for each directory,  *)
(* what the file of the wrapper's name in it is.  fn_ret holds what parse  *)
(* came to.                                                                *)
(***************************************************************************)

MaxCmdArgs == 3

MaxPath == 3

CARGO_PKG_NAME == "sccache"

\* the name the tool is linked under when it stands in for a compiler
WrapperName == "gcc"

Dirs == { "/a", "/b", "/c" }

\* a directory that does not exist
NoSuchDir == "/cc."

\* dir.join(name) for the wrapper's name
FullPath ==
    [d \in Dirs \cup { NoSuchDir } |->
        CASE d = "/a" -> "/a/gcc"
          [] d = "/b" -> "/b/gcc"
          [] d = "/c" -> "/c/gcc"
          [] d = NoSuchDir -> "/cc./gcc"]

\* full_path.parent()
Parent(p) == CHOOSE d \in Dirs \cup { NoSuchDir } : FullPath[d] = p

\* what a directory holds under the wrapper's name: nothing, a compiler, or
\* a file whose canonical path is that of the running executable
Entries == { "none", "cc", "self" }

\* canonicalize(): the running executable's canonical path for its links,
\* the path itself for any other file
canonicalize(fs, p) == IF fs[Parent(p)] = "self" THEN "<exe>" ELSE p

\* maybe_exe.exists()
exists(fs, p) == Parent(p) \in Dirs /\ fs[Parent(p)] # "none"

\* which_in: the file in the first directory of paths that holds one
RECURSIVE which_in(_, _)
which_in(fs, paths) ==
    IF paths = <<>> THEN [kind |-> "Err"]
    ELSE IF exists(fs, FullPath[Head(paths)])
    THEN [kind |-> "Ok", full_path |-> FullPath[Head(paths)]]
    ELSE which_in(fs, Tail(paths))

\* split_paths(&path).filter(|p| p != dir)
RECURSIVE filter_ne(_, _)
filter_ne(paths, dir) ==
    IF paths = <<>> THEN <<>>
    ELSE IF Head(paths) = dir THEN filter_ne(Tail(paths), dir)
    ELSE << Head(paths) >> \o filter_ne(Tail(paths), dir)

\* a lookup that takes whatever the second search finds, or the file found
\* first when that is already another file (lines 118-139)
lookup_in_path(fs, exe, path) ==
    LET first == which_in(fs, path)
    IN  IF first.kind = "Err" THEN [kind |-> "Err"]
        ELSE IF canonicalize(fs, first.full_path) = canonicalize(fs, exe)
        THEN which_in(fs, filter_ne(path, Parent(first.full_path)))
        ELSE first

\* lines 96-151: the arguments after the wrapper's name is resolved
wrapper_args(in) ==
    IF in.exe_name = CARGO_PKG_NAME
    THEN [kind |-> "Ok", args |-> in.args]
    ELSE IF /\ in.compiler_dir # None
            /\ exists(in.fs, FullPath[in.compiler_dir[1]])
    THEN [kind |-> "Ok",
          args |-> << CARGO_PKG_NAME, FullPath[in.compiler_dir[1]] >>
                     \o Tail(in.args)]
    ELSE IF in.path = None
    THEN [kind |-> "Ok", args |-> in.args]
    ELSE LET found == lookup_in_path(in.fs, in.exe, in.path[1])
         IN  IF found.kind = "Err"
             THEN [kind |-> "panic",
                   msg |-> "no other binary of that name found in PATH!"]
             ELSE [kind |-> "Ok",
                   args |-> << CARGO_PKG_NAME, found.full_path >>
                              \o Tail(in.args)]

\* the flags of get_app, by the name of their argument
FlagNames ==
    [tok \in { "-s", "-z", "--start-server", "--stop-server" } |->
        CASE tok = "-s" -> "show-stats"
          [] tok = "-z" -> "zero-stats"
          [] tok = "--start-server" -> "start-server"
          [] tok = "--stop-server" -> "stop-server"]

\* an argument that looks like a flag
LooksLikeFlag(tok) == tok \in DOMAIN FlagNames \cup { "-c" }

\* get_matches_from over the arguments rest, the flags seen so far being
\* present: a known flag is noted (twice is an error), an unknown one is an
\* error, and from the first positional on everything is the value of cmd
\* (TrailingVarArg)
RECURSIVE get_matches(_, _)
get_matches(rest, present) ==
    IF rest = <<>> THEN [kind |-> "Ok", present |-> present, cmd |-> None]
    ELSE IF Head(rest) \in DOMAIN FlagNames
    THEN IF FlagNames[Head(rest)] \in present
         THEN [kind |-> "exit", msg |-> "UnexpectedMultipleUsage"]
         ELSE get_matches(Tail(rest), present \cup { FlagNames[Head(rest)] })
    ELSE IF LooksLikeFlag(Head(rest))
    THEN [kind |-> "exit", msg |-> "UnknownArgument"]
    ELSE [kind |-> "Ok", present |-> present, cmd |-> Some(rest)]

\* the count of line 163 with zero_stats among the modes
count_modes_All(internal_start_server, m) ==
    Cardinality({ x \in { "show-stats", "start-server", "stop-server",
                          "zero-stats" } : x \in m.present })
        + (IF internal_start_server THEN 1 ELSE 0)
        + (IF m.cmd # None THEN 1 ELSE 0)

\* lines 163-170: how many of internal_start_server, show_stats,
\* start_server, stop_server and cmd are there
count_modes(internal_start_server, m) ==
    Cardinality({ x \in { "show-stats", "start-server", "stop-server" } :
                    x \in m.present })
        + (IF internal_start_server THEN 1 ELSE 0)
        + (IF m.cmd # None THEN 1 ELSE 0)

\* lines 173-199
command_of(internal_start_server, m) ==
    IF internal_start_server
    THEN [kind |-> "Ok", command |-> [cmd |-> "InternalStartServer"]]
    ELSE IF "show-stats" \in m.present
    THEN [kind |-> "Ok", command |-> [cmd |-> "ShowStats", fmt |-> "text"]]
    ELSE IF "start-server" \in m.present
    THEN [kind |-> "Ok", command |-> [cmd |-> "StartServer"]]
    ELSE IF "stop-server" \in m.present
    THEN [kind |-> "Ok", command |-> [cmd |-> "StopServer"]]
    ELSE IF "zero-stats" \in m.present
    THEN [kind |-> "Ok", command |-> [cmd |-> "ZeroStats"]]
    ELSE IF m.cmd # None
    THEN [kind |-> "Ok",
          command |-> [cmd |-> "Compile", exe |-> Head(m.cmd[1]),
                       cmdline |-> Tail(m.cmd[1])]]
    ELSE [kind |-> "Err", msg |-> "No command specified"]

\* cmdline::parse
parse(in) ==
    LET internal_start_server ==
            env_var_ok(in.start_server) = Some("1")
        wrapped == IF internal_start_server
                   THEN [kind |-> "Ok", args |-> in.args]
                   ELSE wrapper_args(in)
    IN  IF wrapped.kind # "Ok" THEN wrapped
        ELSE LET m == get_matches(Tail(wrapped.args), {})
             IN  IF m.kind # "Ok" THEN m
                 ELSE IF count_modes(internal_start_server, m) > 1
                 THEN [kind |-> "Err", msg |-> "Too many commands specified"]
                 ELSE command_of(internal_start_server, m)

StartServerValues == { NotPresent, Unicode("1"), Unicode("0") }

CmdTokens == { "-s", "-z", "--start-server", "--stop-server", "gcc", "-c" }

\* the tool under its own name, with every short command line
ModeInputs ==
    { [args |-> << CARGO_PKG_NAME >> \o rest, start_server |-> s,
       exe_name |-> CARGO_PKG_NAME, exe |-> "/opt/sccache", path |-> None,
       compiler_dir |-> None, fs |-> [d \in Dirs |-> "none"]] :
        rest \in UNION { [1..n -> CmdTokens] : n \in 0..MaxCmdArgs },
        s \in StartServerValues }

\* the tool under a compiler's name, in every small file system
WrapperInputs ==
    { [args |-> << WrapperName, "-c" >>, start_server |-> s,
       exe_name |-> WrapperName, exe |-> FullPath[d], path |-> path,
       compiler_dir |-> cdir, fs |-> fs] :
        s \in { NotPresent, Unicode("1") },
        d \in Dirs,
        path \in { None } \cup
                 { Some(p) : p \in UNION { [1..n -> Dirs] : n \in 0..MaxPath } },
        cdir \in { None } \cup { Some(c) : c \in Dirs \cup { NoSuchDir } },
        fs \in [Dirs -> Entries] }

CmdlineInit ==
    /\ fn_args \in ModeInputs \cup { in \in WrapperInputs : in.fs[Parent(in.exe)] = "self" }
    /\ fn_state = None
    /\ fn_ret = None
    /\ NoCall
    /\ NoStorage
    /\ NoServer
    /\ NoBundle
    /\ NoDaemon

Parse ==
    /\ fn_ret = None
    /\ fn_ret' = Some(parse(fn_args))
    /\ UNCHANGED << fn_args, fn_state, daemonVars, callVars, storageVars,
                    serverVars, bundleVars >>

CmdlineNext == Parse

SpecCmdline == CmdlineInit /\ [][CmdlineNext]_vars

\* The major modes an invocation under the tool's own name asks for: the
\* flags before the first positional argument, a compile command if there
\* is a positional argument, and the marker in the environment.
RECURSIVE ModesIn(_)
ModesIn(rest) ==
    IF rest = <<>> THEN {}
    ELSE IF Head(rest) \in DOMAIN FlagNames
    THEN { FlagNames[Head(rest)] } \cup ModesIn(Tail(rest))
    ELSE { "compile" }

Requested(in) ==
    ModesIn(Tail(in.args))
        \cup (IF in.start_server = Unicode("1") THEN { "marker" } ELSE {})

\* The command a mode stands for.
IsCommandFor(command, mode, in) ==
    CASE mode = "show-stats" -> command.cmd = "ShowStats"
      [] mode = "zero-stats" -> command.cmd = "ZeroStats"
      [] mode = "start-server" -> command.cmd = "StartServer"
      [] mode = "stop-server" -> command.cmd = "StopServer"
      [] mode = "marker" -> command.cmd = "InternalStartServer"
      [] mode = "compile" ->
            /\ command.cmd = "Compile"
            /\ << command.exe >> \o command.cmdline
                  = SubSeq(in.args, Len(in.args) - Len(command.cmdline),
                           Len(in.args))

\* parse has returned, to its caller, for the tool under its own name
Parsed ==
    /\ fn_ret # None
    /\ fn_args.exe_name = CARGO_PKG_NAME
    /\ fn_ret[1].kind \in { "Ok", "Err" }

\* C25: parse returns an error whenever more than one major mode is
\* requested, and exactly the requested command when one is.
C25_OneMode ==
    Parsed =>
        /\ Cardinality(Requested(fn_args)) > 1 => fn_ret[1].kind = "Err"
        /\ \A mode \in Requested(fn_args) :
              Requested(fn_args) = { mode } =>
                  /\ fn_ret[1].kind = "Ok"
                  /\ IsCommandFor(fn_ret[1].command, mode, fn_args)

\* C26: under another name than its own, the compiler path the tool injects
\* is never a path of the tool's own executable.
C26_NeverItself ==
    (/\ fn_ret # None
     /\ fn_args.exe_name # CARGO_PKG_NAME
     /\ env_var_ok(fn_args.start_server) # Some("1")
     /\ fn_ret[1].kind = "Ok"
     /\ fn_ret[1].command.cmd = "Compile")
        => canonicalize(fn_args.fs, fn_ret[1].command.exe)
              # canonicalize(fn_args.fs, fn_args.exe)


(***************************************************************************)
(* The daemon core: connections, the two-stage response to a compile, the  *)
(* Shutdown request and the idle timer.  daemon holds the daemon's status, *)
(* the time it has been idle, why it exited and its counters; conns holds, for each       *)
(* connection, the request sent on it, the responses written to it and     *)
(* what the client made of them.                                           *)
(***************************************************************************)

MaxConns == 2

\* the idle timeout, in ticks of the timer
IdleTimeout == 2

Conns == 1..MaxConns

\* protocol.rs, Request
Requests == { "ZeroStats", "GetStats", "Shutdown", "Compile" }

\* protocol.rs, Response and CompileResponse
CompileStarted == [kind |-> "CompileStarted"]

UnhandledCompile == [kind |-> "UnhandledCompile"]

CompileFinished(out) ==
    [kind |-> "CompileFinished", retcode |-> Some(out.status),
     signal |-> None, stdout |-> out.stdout, stderr |-> out.stderr]

StatsResponse(s) == [kind |-> "Stats", stats |-> s]

ShuttingDown(s) == [kind |-> "ShuttingDown", stats |-> s]

\* a connection nobody has used
Unused ==
    [req |-> "None", stage |-> "idle", sent |-> <<>>, ran |-> None,
     result |-> None]

\* the requests the daemon has received and not yet dealt with to the end
InFlight == { c \in Conns : conns[c].stage \in { "received", "started" } }

DaemonInit ==
    /\ daemon = [status |-> "running", idle |-> 0, exit |-> "none",
                 stats |-> [compile_requests |-> 0]]
    /\ conns = [c \in Conns |-> Unused]
    /\ NoCall
    /\ NoStorage
    /\ NoServer
    /\ NoBundle
    /\ NoFunction

\* a client connects and its request arrives; the daemon is no longer idle
Send(c, r) ==
    /\ daemon.status = "running"
    /\ conns[c].req = "None"
    /\ conns' = [conns EXCEPT ![c].req = r, ![c].stage = "received"]
    /\ daemon' = [daemon EXCEPT !.idle = 0]
    /\ UNCHANGED << fnVars, callVars, storageVars, serverVars, bundleVars >>

\* the daemon takes up a compile request: it can handle it and answers
\* CompileStarted, or it cannot and answers UnhandledCompile
HandleCompile(c, handled) ==
    /\ daemon.status # "exited"
    /\ conns[c].req = "Compile"
    /\ conns[c].stage = "received"
    /\ conns' = [conns EXCEPT
                    ![c].sent = Append(@, IF handled THEN CompileStarted
                                          ELSE UnhandledCompile),
                    ![c].stage = IF handled THEN "started" ELSE "done"]
    /\ daemon' = [daemon EXCEPT
                    !.stats.compile_requests = @ + 1]
    /\ UNCHANGED << fnVars, callVars, storageVars, serverVars, bundleVars >>

\* a finish that leaves the compile in flight
FinishCompile_Again(c, out) ==
    /\ daemon.status # "exited"
    /\ conns[c].stage = "started"
    /\ Len(conns[c].sent) < 3
    /\ conns' = [conns EXCEPT ![c].sent = Append(@, CompileFinished(out))]
    /\ UNCHANGED << daemon, fnVars, callVars, storageVars, serverVars,
                    bundleVars >>

\* the compile of a request ends and its CompileFinished is written
FinishCompile(c, out) ==
    /\ daemon.status # "exited"
    /\ conns[c].stage = "started"
    /\ conns' = [conns EXCEPT ![c].sent = Append(@, CompileFinished(out)),
                              ![c].stage = "done"]
    /\ UNCHANGED << daemon, fnVars, callVars, storageVars, serverVars,
                    bundleVars >>

\* after UnhandledCompile the client runs the compiler itself
ClientRun(c, out) ==
    /\ conns[c].sent = << UnhandledCompile >>
    /\ conns[c].ran = None
    /\ conns' = [conns EXCEPT ![c].ran = Some(out)]
    /\ UNCHANGED << daemon, fnVars, callVars, storageVars, serverVars,
                    bundleVars >>

\* a client that returns what the daemon's last response holds, or what the
\* process it ran itself left
ClientReturn(c) ==
    /\ conns[c].req = "Compile"
    /\ conns[c].result = None
    /\ \/ /\ conns[c].sent # <<>>
          /\ conns[c].sent[Len(conns[c].sent)].kind = "CompileFinished"
          /\ LET fin == conns[c].sent[Len(conns[c].sent)]
             IN  conns' = [conns EXCEPT
                              ![c].result = Some([status |-> fin.retcode[1],
                                                  stdout |-> fin.stdout,
                                                  stderr |-> fin.stderr])]
       \/ /\ conns[c].ran # None
          /\ conns' = [conns EXCEPT ![c].result = conns[c].ran]
    /\ UNCHANGED << daemon, fnVars, callVars, storageVars, serverVars,
                    bundleVars >>

\* GetStats and ZeroStats
HandleStats(c) ==
    /\ daemon.status # "exited"
    /\ conns[c].req \in { "GetStats", "ZeroStats" }
    /\ conns[c].stage = "received"
    /\ LET s == IF conns[c].req = "ZeroStats"
                THEN [compile_requests |-> 0] ELSE daemon.stats
       IN  /\ daemon' = [daemon EXCEPT !.stats = s]
           /\ conns' = [conns EXCEPT ![c].sent = Append(@, StatsResponse(s)),
                                     ![c].stage = "done"]
    /\ UNCHANGED << fnVars, callVars, storageVars, serverVars, bundleVars >>

\* Shutdown: the answer carries the statistics, and the daemon takes no
\* further connection
HandleShutdown(c) ==
    /\ daemon.status # "exited"
    /\ conns[c].req = "Shutdown"
    /\ conns[c].stage = "received"
    /\ conns' = [conns EXCEPT ![c].sent = Append(@, ShuttingDown(daemon.stats)),
                              ![c].stage = "done"]
    /\ daemon' = [daemon EXCEPT !.status = "draining"]
    /\ UNCHANGED << fnVars, callVars, storageVars, serverVars, bundleVars >>

\* an exit that does not wait
DrainExit_AtOnce ==
    /\ daemon.status = "draining"
    /\ daemon' = [daemon EXCEPT !.status = "exited", !.exit = "shutdown"]
    /\ UNCHANGED << conns, fnVars, callVars, storageVars, serverVars,
                    bundleVars >>

\* after Shutdown the daemon exits once nothing is in flight
DrainExit ==
    /\ daemon.status = "draining"
    /\ InFlight = {}
    /\ daemon' = [daemon EXCEPT !.status = "exited", !.exit = "shutdown"]
    /\ UNCHANGED << conns, fnVars, callVars, storageVars, serverVars,
                    bundleVars >>

\* a timer that runs whatever is in flight
Tick_Always ==
    /\ daemon.status = "running"
    /\ daemon' = IF daemon.idle + 1 = IdleTimeout
                 THEN [daemon EXCEPT !.idle = IdleTimeout, !.status = "exited",
                                     !.exit = "idle"]
                 ELSE [daemon EXCEPT !.idle = @ + 1]
    /\ UNCHANGED << conns, fnVars, callVars, storageVars, serverVars,
                    bundleVars >>

\* time passes with nothing in flight; when the idle timeout is reached the
\* timer fires and the daemon exits
Tick ==
    /\ daemon.status = "running"
    /\ InFlight = {}
    /\ daemon' = IF daemon.idle + 1 = IdleTimeout
                 THEN [daemon EXCEPT !.idle = IdleTimeout, !.status = "exited",
                                     !.exit = "idle"]
                 ELSE [daemon EXCEPT !.idle = @ + 1]
    /\ UNCHANGED << conns, fnVars, callVars, storageVars, serverVars,
                    bundleVars >>

DaemonNext ==
    \/ \E c \in Conns, r \in Requests : Send(c, r)
    \/ \E c \in Conns, handled \in BOOLEAN : HandleCompile(c, handled)
    \/ \E c \in Conns, out \in ChildOutputs : FinishCompile(c, out)
    \/ \E c \in Conns, out \in ChildOutputs : ClientRun(c, out)
    \/ \E c \in Conns : ClientReturn(c)
    \/ \E c \in Conns : HandleStats(c)
    \/ \E c \in Conns : HandleShutdown(c)
    \/ DrainExit
    \/ Tick

SpecDaemon == DaemonInit /\ [][DaemonNext]_vars

\* The reactor runs every task that can run and the timer keeps running; a
\* compiler that was started ends.
DaemonFairness ==
    /\ \A c \in Conns :
          /\ WF_vars(\E handled \in BOOLEAN : HandleCompile(c, handled))
          /\ WF_vars(\E out \in ChildOutputs : FinishCompile(c, out))
          /\ WF_vars(HandleStats(c))
          /\ WF_vars(HandleShutdown(c))
    /\ WF_vars(DrainExit)
    /\ WF_vars(Tick)

SpecDaemonFair == SpecDaemon /\ DaemonFairness


\* The responses a connection may hold after a Compile request.
CompileReplies ==
    { <<>>, << CompileStarted >>, << UnhandledCompile >> }
        \cup { << CompileStarted, CompileFinished(out) >> : out \in ChildOutputs }

\* The responses to every Compile request so far are a first response and,
\* after CompileStarted only, at most one CompileFinished; a client that was
\* told UnhandledCompile returns what the compiler it ran itself left.
TwoStage ==
    \A c \in Conns :
        conns[c].req = "Compile" =>
            /\ conns[c].sent \in CompileReplies
            /\ (conns[c].sent = << UnhandledCompile >> /\ conns[c].result # None)
                    => (conns[c].ran # None /\ conns[c].result = conns[c].ran)

AnswersWithStats ==
    \A c \in Conns :
        (conns[c].req = "Shutdown" /\ conns[c].sent = <<>>
            /\ conns'[c].sent # <<>>)
            => conns'[c].sent = << ShuttingDown(daemon.stats) >>

\* A daemon that has exited left no request in flight, and every compile it
\* started has its CompileFinished.
Drained ==
    daemon.status = "exited" =>
        /\ InFlight = {}
        /\ \A c \in Conns :
              (conns[c].sent # <<>> /\ conns[c].sent[1] = CompileStarted)
                  => Len(conns[c].sent) = 2

IdleTimer ==
    /\ daemon.exit = "idle" => (InFlight = {} /\ daemon.idle = IdleTimeout)
    /\ daemon.status = "running" => daemon.idle < IdleTimeout

\* C23: the daemon shuts down on its own once nothing has been in flight for
\* the whole idle timeout, also when no client ever connects, and the idle
\* timer never shuts it down while a compile is in flight.
C23_IdleShutdown ==
    /\ []IdleTimer
    /\ (daemon.status = "running" /\ InFlight = {})
          ~> (daemon.status = "exited" \/ InFlight # {})
    /\ <>(daemon.status = "exited" \/ \E c \in Conns : conns[c] # Unused)

C23_Witness ==
    /\ daemon.exit = "idle"
    /\ \A c \in Conns : conns[c] = Unused


====
